---------------------------- MODULE Spec2Model ----------------------------
(***************************************************************************)
(* Model of the Covenant LLM generation harness (src/llm-context):         *)
(*   compiler_validator.py  - CompilerValidator (gateway + output parser)  *)
(*   generation_harness.py  - GenerationHarness.generate (correction loop) *)
(*                                                                         *)
(* Python text is modelled by TLA+ strings, read character by character    *)
(* with Len / SubSeq / \o.  Python values whose type is decided at run     *)
(* time (the fields of a decoded JSON record, Optional[int] ...) are       *)
(* tagged records [t |-> "str" | "int" | "float" | "bool" | "null" |       *)
(* "list" | "dict", ...]; None is PyNone.                                  *)
(***************************************************************************)
EXTENDS Integers, Sequences, FiniteSets, TLC

(***************************************************************************)
(* Python str operations used by compiler_validator.py                     *)
(***************************************************************************)
Ch(s, i) == IF i >= 1 /\ i <= Len(s) THEN SubSeq(s, i, i) ELSE ""

\* str.strip() with no argument removes these (of the characters modelled)
IsSpace(c) == c \in {" ", "\t", "\n", "\r"}

IsDigit(c) == c \in {"0", "1", "2", "3", "4", "5", "6", "7", "8", "9"}

UpperAlpha == "ABCDEFGHIJKLMNOPQRSTUVWXYZ"

LowerAlpha == "abcdefghijklmnopqrstuvwxyz"

IsUpper(c) == \E k \in 1..Len(UpperAlpha) : Ch(UpperAlpha, k) = c

LowerChar(c) ==
    IF IsUpper(c)
    THEN Ch(LowerAlpha, CHOOSE k \in 1..Len(UpperAlpha) : Ch(UpperAlpha, k) = c)
    ELSE c

\* str.lower(), character by character (by halves, to keep the nesting shallow)
RECURSIVE Lower(_)
Lower(s) ==
    IF Len(s) <= 1 THEN LowerChar(s)
    ELSE LET h == Len(s) \div 2
         IN  Lower(SubSeq(s, 1, h)) \o Lower(SubSeq(s, h + 1, Len(s)))

RECURSIVE LStrip(_)
LStrip(s) == IF s # "" /\ IsSpace(Head(s)) THEN LStrip(Tail(s)) ELSE s

RECURSIVE RStrip(_)
RStrip(s) ==
    IF s # "" /\ IsSpace(Ch(s, Len(s)))
    THEN RStrip(SubSeq(s, 1, Len(s) - 1))
    ELSE s

Strip(s) == RStrip(LStrip(s))

StartsWithAt(s, i, p) ==
    /\ i + Len(p) - 1 <= Len(s)
    /\ SubSeq(s, i, i + Len(p) - 1) = p

StartsWith(s, p) == StartsWithAt(s, 1, p)

\* `p in s`
Contains(s, p) == \E i \in 1..(Len(s) + 1) : StartsWithAt(s, i, p)

\* s.split('\n'): the pieces between newlines, empty pieces kept
RECURSIVE SplitLines(_)
SplitLines(s) ==
    LET nl == {i \in 1..Len(s) : Ch(s, i) = "\n"} IN
    IF nl = {} THEN <<s>>
    ELSE LET i == CHOOSE k \in nl : \A j \in nl : k <= j
         IN  <<SubSeq(s, 1, i - 1)>> \o SplitLines(SubSeq(s, i + 1, Len(s)))

\* end (exclusive) of the maximal run of characters satisfying a class
RECURSIVE DigitRunEnd(_, _)
DigitRunEnd(s, i) == IF IsDigit(Ch(s, i)) THEN DigitRunEnd(s, i + 1) ELSE i

RECURSIVE UpperRunEnd(_, _)
UpperRunEnd(s, i) == IF IsUpper(Ch(s, i)) THEN UpperRunEnd(s, i + 1) ELSE i

DigitValue(c) == CHOOSE d \in 0..9 : Ch("0123456789", d + 1) = c

\* int(text) for a run of decimal digits
RECURSIVE ToInt(_)
ToInt(s) ==
    IF s = "" THEN 0
    ELSE 10 * ToInt(SubSeq(s, 1, Len(s) - 1)) + DigitValue(Ch(s, Len(s)))

(***************************************************************************)
(* Run-time typed Python values                                            *)
(***************************************************************************)
PyNone == [t |-> "null"]

PyStr(s) == [t |-> "str", s |-> s]

PyInt(n) == [t |-> "int", i |-> n]

PyFloat(text) == [t |-> "float", f |-> text]

PyBool(b) == [t |-> "bool", b |-> b]

PyList(items) == [t |-> "list", items |-> items]

\* a dict keeps its (key, value) pairs in insertion order
PyDict(pairs) == [t |-> "dict", pairs |-> pairs]

\* dict.get(key, default): the last pair stored under the key wins
DictGet(d, key, default) ==
    LET hits == {k \in 1..Len(d.pairs) : d.pairs[k].k = key}
    IN  IF hits = {} THEN default
        ELSE d.pairs[CHOOSE k \in hits : \A j \in hits : j <= k].v

(***************************************************************************)
(* json.loads, for documents over: objects, arrays, strings (escapes       *)
(* \" \\ \/ \n \t \r), integers, decimal fractions, true / false / null.   *)
(* A parse step yields [ok, val, pos]; ok = FALSE is json.JSONDecodeError. *)
(***************************************************************************)
JFail == [ok |-> FALSE, val |-> PyNone, pos |-> 0]

JOk(v, p) == [ok |-> TRUE, val |-> v, pos |-> p]

IsJsonWs(c) == c \in {" ", "\t", "\n", "\r"}

RECURSIVE SkipWs(_, _)
SkipWs(s, i) == IF IsJsonWs(Ch(s, i)) THEN SkipWs(s, i + 1) ELSE i

\* the body of a string literal, from the character after the opening quote
RECURSIVE JStringBody(_, _, _)
JStringBody(s, i, acc) ==
    LET c == Ch(s, i) IN
    IF i > Len(s) THEN JFail
    ELSE IF c = "\"" THEN JOk(PyStr(acc), i + 1)
    ELSE IF c = "\\" THEN
        LET e == Ch(s, i + 1) IN
        IF e \in {"\"", "\\", "/"} THEN JStringBody(s, i + 2, acc \o e)
        ELSE IF e = "n" THEN JStringBody(s, i + 2, acc \o "\n")
        ELSE IF e = "t" THEN JStringBody(s, i + 2, acc \o "\t")
        ELSE IF e = "r" THEN JStringBody(s, i + 2, acc \o "\r")
        ELSE JFail
    ELSE IF c \in {"\n", "\t", "\r"} THEN JFail   \* strict: no control characters
    ELSE JStringBody(s, i + 1, acc \o c)

JNumber(s, i) ==
    LET d0   == IF Ch(s, i) = "-" THEN i + 1 ELSE i
        \* the integer part is "0" or a run of digits that does not start with 0
        end  == IF Ch(s, d0) = "0" THEN d0 + 1 ELSE DigitRunEnd(s, d0)
        fEnd == DigitRunEnd(s, end + 1)
        sign == IF d0 = i THEN 1 ELSE 0 - 1
    IN  IF end = d0 THEN JFail
        ELSE IF Ch(s, end) = "." /\ fEnd > end + 1
             THEN JOk(PyFloat(SubSeq(s, i, fEnd - 1)), fEnd)
             ELSE JOk(PyInt(sign * ToInt(SubSeq(s, d0, end - 1))), end)

RECURSIVE JValue(_, _)
RECURSIVE JArrayRest(_, _, _)
RECURSIVE JObjectRest(_, _, _)

\* after an element: ',' and another element, or ']'
JArrayRest(s, i, acc) ==
    LET v == JValue(s, i) IN
    IF ~v.ok THEN JFail
    ELSE LET j == SkipWs(s, v.pos)
             items == Append(acc, v.val)
         IN  IF Ch(s, j) = "," THEN JArrayRest(s, SkipWs(s, j + 1), items)
             ELSE IF Ch(s, j) = "]" THEN JOk(PyList(items), j + 1)
             ELSE JFail

\* at the opening quote of a key: "key" : value, then ',' or '}'
JObjectRest(s, i, acc) ==
    IF Ch(s, i) # "\"" THEN JFail
    ELSE LET key == JStringBody(s, i + 1, "") IN
         IF ~key.ok THEN JFail
         ELSE LET c == SkipWs(s, key.pos) IN
              IF Ch(s, c) # ":" THEN JFail
              ELSE LET v == JValue(s, SkipWs(s, c + 1)) IN
                   IF ~v.ok THEN JFail
                   ELSE LET j == SkipWs(s, v.pos)
                            pairs == Append(acc, [k |-> key.val.s, v |-> v.val])
                        IN  IF Ch(s, j) = ","
                            THEN JObjectRest(s, SkipWs(s, j + 1), pairs)
                            ELSE IF Ch(s, j) = "}" THEN JOk(PyDict(pairs), j + 1)
                            ELSE JFail

JValue(s, i) ==
    LET c == Ch(s, i) IN
    IF c = "\"" THEN JStringBody(s, i + 1, "")
    ELSE IF c = "{" THEN
        (IF Ch(s, SkipWs(s, i + 1)) = "}"
         THEN JOk(PyDict(<<>>), SkipWs(s, i + 1) + 1)
         ELSE JObjectRest(s, SkipWs(s, i + 1), <<>>))
    ELSE IF c = "[" THEN
        (IF Ch(s, SkipWs(s, i + 1)) = "]"
         THEN JOk(PyList(<<>>), SkipWs(s, i + 1) + 1)
         ELSE JArrayRest(s, SkipWs(s, i + 1), <<>>))
    ELSE IF StartsWithAt(s, i, "null") THEN JOk(PyNone, i + 4)
    ELSE IF StartsWithAt(s, i, "true") THEN JOk(PyBool(TRUE), i + 4)
    ELSE IF StartsWithAt(s, i, "false") THEN JOk(PyBool(FALSE), i + 5)
    ELSE IF c = "-" \/ IsDigit(c) THEN JNumber(s, i)
    ELSE JFail

\* json.loads(s): one value, surrounded by whitespace only
JsonLoads(s) ==
    LET v == JValue(s, SkipWs(s, 1)) IN
    IF v.ok /\ SkipWs(s, v.pos) > Len(s) THEN v ELSE JFail

(***************************************************************************)
(* compiler_validator.py                                                   *)
(***************************************************************************)
\* ErrorSeverity: the enum's values
SeverityValues == {"error", "warning", "info"}

\* CompilerError(code, severity, message, location, line, column,
\*               suggestion, auto_fix_confidence)
CompilerError(code, severity, message, location, line, column, suggestion, conf) ==
    [code |-> code, severity |-> severity, message |-> message,
     location |-> location, line |-> line, column |-> column,
     suggestion |-> suggestion, auto_fix_confidence |-> conf]

\* subprocess.CompletedProcess(returncode, stdout, stderr)
CompletedProcess(returncode, stdout, stderr) ==
    [returncode |-> returncode, stdout |-> stdout, stderr |-> stderr]

TimeoutStderr == "ERROR: Compilation timeout (30s)"

NotFoundStderr == "ERROR: Compiler not found. Run 'cargo build' first."

\* what the child process did: exited, ran past the timeout, or could not
\* be launched because the binary is missing
ProcExit(returncode, stdout, stderr) ==
    [kind |-> "exit", returncode |-> returncode, stdout |-> stdout, stderr |-> stderr]

ProcTimeout == [kind |-> "timeout", returncode |-> 0, stdout |-> "", stderr |-> ""]

ProcNotFound == [kind |-> "notfound", returncode |-> 0, stdout |-> "", stderr |-> ""]

\* mutant: the synthetic results carry no message
RunCompilerWithoutMessage(proc) ==
    IF proc.kind = "exit"
    THEN CompletedProcess(proc.returncode, proc.stdout, proc.stderr)
    ELSE CompletedProcess(1, "", "")

\* _run_compiler: subprocess.run, TimeoutExpired and FileNotFoundError caught
RunCompiler(proc) ==
    CASE proc.kind = "exit" ->
            CompletedProcess(proc.returncode, proc.stdout, proc.stderr)
      [] proc.kind = "timeout" -> CompletedProcess(1, "", TimeoutStderr)
      [] proc.kind = "notfound" -> CompletedProcess(1, "", NotFoundStderr)

\* re.search(r'\[([EW]-[A-Z]+-\d+)\]', line) tried at position i:
\* the position after the closing bracket, or 0 when there is no match at i
CodeMatchEnd(line, i) ==
    LET u == UpperRunEnd(line, i + 3)
        d == DigitRunEnd(line, u + 1)
    IN  IF /\ Ch(line, i) = "["
           /\ Ch(line, i + 1) \in {"E", "W"}
           /\ Ch(line, i + 2) = "-"
           /\ u > i + 3
           /\ Ch(line, u) = "-"
           /\ d > u + 1
           /\ Ch(line, d) = "]"
        THEN d + 1
        ELSE 0

\* the leftmost match: [found, code (group 1), end (position after the match)]
CodeSearch(line) ==
    LET at == {i \in 1..Len(line) : CodeMatchEnd(line, i) > 0} IN
    IF at = {} THEN [found |-> FALSE, code |-> "", end |-> 0]
    ELSE LET i == CHOOSE k \in at : \A j \in at : k <= j
             e == CodeMatchEnd(line, i)
         IN  [found |-> TRUE, code |-> SubSeq(line, i + 1, e - 2), end |-> e]

\* re.search(r'line (\d+)', line): int(group 1) of the leftmost match, or None
LineSearch(line) ==
    LET at == {i \in 1..Len(line) :
                  StartsWithAt(line, i, "line ") /\ IsDigit(Ch(line, i + 5))}
    IN  IF at = {} THEN PyNone
        ELSE LET i == CHOOSE k \in at : \A j \in at : k <= j
             IN  PyInt(ToInt(SubSeq(line, i + 5, DigitRunEnd(line, i + 5) - 1)))

\* mutant: the text after the code bracket is not stripped
MessageAfterCodeUnstripped(line, e) ==
    LET rest == SubSeq(line, e, Len(line)) IN
    IF StartsWith(rest, ":") THEN SubSeq(rest, 2, Len(rest)) ELSE rest

\* the message of a line whose code bracket ends before position e
MessageAfterCode(line, e) ==
    LET rest == Strip(SubSeq(line, e, Len(line))) IN
    IF StartsWith(rest, ":") THEN Strip(SubSeq(rest, 2, Len(rest))) ELSE rest

\* the CompilerError built from a line and its code_match m (lines 232-251)
ErrorOfLine(line, severity, m) ==
    CompilerError(
        PyStr(IF m.found THEN m.code ELSE "E-UNKNOWN"),
        severity,
        PyStr(IF m.found THEN MessageAfterCode(line, m.end) ELSE line),
        PyNone, LineSearch(line), PyNone, PyNone, PyNone)

\* _parse_error_line
ParseErrorLine(line, severity) == ErrorOfLine(line, severity, CodeSearch(line))

\* a parser outcome: the two lists, or the exception that escaped
Parsed(errors, warnings) ==
    [raised |-> FALSE, exc |-> "", errors |-> errors, warnings |-> warnings]

ParseRaised(exc) ==
    [raised |-> TRUE, exc |-> exc, errors |-> <<>>, warnings |-> <<>>]

\* one iteration of the loop of _parse_json_output: the record built from
\* item, or the exception raised by item.get / ErrorSeverity(...)
JsonItem(item) ==
    IF item.t # "dict" THEN [raised |-> TRUE, exc |-> "AttributeError"]
    ELSE LET sev == DictGet(item, "severity", PyStr("error")) IN
         IF ~(sev.t = "str" /\ sev.s \in SeverityValues)
         THEN [raised |-> TRUE, exc |-> "ValueError"]
         ELSE [raised |-> FALSE, exc |-> "",
               error |-> CompilerError(
                   DictGet(item, "code", PyStr("E-UNKNOWN")),
                   sev.s,
                   DictGet(item, "message", PyStr("")),
                   DictGet(item, "location", PyNone),
                   DictGet(item, "line", PyNone),
                   DictGet(item, "column", PyNone),
                   DictGet(item, "suggestion", PyNone),
                   DictGet(item, "auto_fix_confidence", PyNone))]

\* mutant: info records are kept in neither list
RECURSIVE JsonItemsInfoDropped(_, _, _, _)
JsonItemsInfoDropped(items, k, errors, warnings) ==
    IF k > Len(items) THEN Parsed(errors, warnings)
    ELSE LET r == JsonItem(items[k]) IN
         IF r.raised THEN ParseRaised(r.exc)
         ELSE IF r.error.severity = "error"
              THEN JsonItemsInfoDropped(items, k + 1, Append(errors, r.error), warnings)
         ELSE IF r.error.severity = "warning"
              THEN JsonItemsInfoDropped(items, k + 1, errors, Append(warnings, r.error))
         ELSE JsonItemsInfoDropped(items, k + 1, errors, warnings)

RECURSIVE JsonItems(_, _, _, _)
JsonItems(items, k, errors, warnings) ==
    IF k > Len(items) THEN Parsed(errors, warnings)
    ELSE LET r == JsonItem(items[k]) IN
         IF r.raised THEN ParseRaised(r.exc)
         ELSE IF r.error.severity = "error"
              THEN JsonItems(items, k + 1, Append(errors, r.error), warnings)
              ELSE JsonItems(items, k + 1, errors, Append(warnings, r.error))

\* _parse_json_output
ParseJsonOutput(data) ==
    JsonItems(IF data.t = "dict" THEN <<data>> ELSE data.items, 1, <<>>, <<>>)

\* the loop over output.split('\n') of _parse_compiler_output
RECURSIVE TextLines(_, _, _, _)
TextLines(lines, k, errors, warnings) ==
    IF k > Len(lines) THEN Parsed(errors, warnings)
    ELSE LET line == Strip(lines[k]) IN
         IF line = "" THEN TextLines(lines, k + 1, errors, warnings)
         ELSE IF StartsWith(line, "ERROR") \/ StartsWith(line, "error")
              THEN TextLines(lines, k + 1,
                             Append(errors, ParseErrorLine(line, "error")), warnings)
         ELSE IF StartsWith(line, "WARNING") \/ StartsWith(line, "warning")
              THEN TextLines(lines, k + 1, errors,
                             Append(warnings, ParseErrorLine(line, "warning")))
         ELSE TextLines(lines, k + 1, errors, warnings)

\* output = result.stderr + "\n" + result.stdout
CombinedOutput(result) == result.stderr \o "\n" \o result.stdout

\* message=output or "Compilation failed"
GenericMessage(output) == IF output # "" THEN output ELSE "Compilation failed"

\* the generic error of lines 215-222, added to the text path's lists
WithGenericError(p, result, output) ==
    IF Len(p.errors) = 0 /\ result.returncode # 0
    THEN Parsed(
            Append(p.errors,
                   CompilerError(PyStr("E-UNKNOWN"), "error",
                                 PyStr(GenericMessage(output)),
                                 PyNone, PyNone, PyNone, PyNone, PyNone)),
            p.warnings)
    ELSE p

\* the text path: lines 195-224
ParseTextOutput(result, output) ==
    WithGenericError(TextLines(SplitLines(output), 1, <<>>, <<>>), result, output)

LooksLikeJson(output) ==
    StartsWith(Strip(output), "{") \/ StartsWith(Strip(output), "[")

\* lines 189-193: the decoded data goes to _parse_json_output; on
\* json.JSONDecodeError the text path is taken
ParseDecoded(result, output, data) ==
    IF data.ok THEN ParseJsonOutput(data.val) ELSE ParseTextOutput(result, output)

\* lines 187-224, on output = result.stderr + "\n" + result.stdout
ParseOutput(result, output) ==
    IF LooksLikeJson(output)
    THEN ParseDecoded(result, output, JsonLoads(output))
    ELSE ParseTextOutput(result, output)

\* _parse_compiler_output
ParseCompilerOutput(result) == ParseOutput(result, CombinedOutput(result))

\* any(code.startswith(prefix) for code in error_codes), evaluated in list
\* order: "true", "false", or "raise" when a code that is not a str is reached
RECURSIVE AnyStartsWith(_, _, _)
AnyStartsWith(codes, k, prefix) ==
    IF k > Len(codes) THEN "false"
    ELSE IF codes[k].t # "str" THEN "raise"
    ELSE IF StartsWith(codes[k].s, prefix) THEN "true"
    ELSE AnyStartsWith(codes, k + 1, prefix)

\* mutant: the type stage is looked for before the parse stage
PhasePrefixesTypeFirst ==
    << <<"E-TYPE", "type_check">>, <<"E-PARSE", "parser">>,
       <<"E-EFFECT", "effect_check">>, <<"E-CODEGEN", "codegen">> >>

PhasePrefixes ==
    << <<"E-PARSE", "parser">>, <<"E-TYPE", "type_check">>,
       <<"E-EFFECT", "effect_check">>, <<"E-CODEGEN", "codegen">> >>

\* the phase indicators searched in result.stderr + result.stdout
PhaseFromOutput(result) ==
    LET output == Lower(result.stderr \o result.stdout) IN
    IF Contains(output, "parsing") THEN "parser"
    ELSE IF Contains(output, "type checking") THEN "type_check"
    ELSE "unknown"

RECURSIVE PhaseFromCodes(_, _, _)
PhaseFromCodes(result, codes, k) ==
    IF k > Len(PhasePrefixes) THEN [raised |-> FALSE, phase |-> PhaseFromOutput(result)]
    ELSE LET a == AnyStartsWith(codes, 1, PhasePrefixes[k][1]) IN
         IF a = "raise" THEN [raised |-> TRUE, phase |-> ""]
         ELSE IF a = "true" THEN [raised |-> FALSE, phase |-> PhasePrefixes[k][2]]
         ELSE PhaseFromCodes(result, codes, k + 1)

\* _determine_phase: the phase, or AttributeError raised by code.startswith
DeterminePhase(result, errors) ==
    IF Len(errors) = 0 THEN [raised |-> FALSE, phase |-> "success"]
    ELSE PhaseFromCodes(result, [k \in 1..Len(errors) |-> errors[k].code], 1)

\* mutant: success decided by the exit code
ValidationSuccessByExitCode(result, errors) == result.returncode = 0

\* success=len(errors) == 0
ValidationSuccess(result, errors) == Len(errors) = 0

\* ValidationResult (compilation_time_ms, a wall-clock reading, is left out)
ValidationResult(success, errors, warnings, source_code, phase) ==
    [success |-> success, errors |-> errors, warnings |-> warnings,
     source_code |-> source_code, phase_reached |-> phase]

NoResult == ValidationResult(FALSE, <<>>, <<>>, "", "")

\* get_error_codes
GetErrorCodes(vr) == [k \in 1..Len(vr.errors) |-> vr.errors[k].code]

\* lines 122-131: the ValidationResult returned, unless _determine_phase raised
ValidateReturn(source_code, result, parsed, phase) ==
    IF phase.raised
    THEN [raised |-> TRUE, exc |-> "AttributeError", result |-> NoResult]
    ELSE [raised |-> FALSE, exc |-> "",
          result |-> ValidationResult(ValidationSuccess(result, parsed.errors),
                                      parsed.errors, parsed.warnings,
                                      source_code, phase.phase)]

\* lines 119-131, after _parse_compiler_output returned or raised
ValidateParsed(source_code, result, parsed) ==
    IF parsed.raised
    THEN [raised |-> TRUE, exc |-> parsed.exc, result |-> NoResult]
    ELSE ValidateReturn(source_code, result, parsed,
                        DeterminePhase(result, parsed.errors))

\* lines 116-131, on the process result
ValidateResultOf(source_code, result) ==
    ValidateParsed(source_code, result, ParseCompilerOutput(result))

\* the body of the try block of validate: the ValidationResult returned, or
\* the exception that leaves the block
ValidateBody(source_code, proc) == ValidateResultOf(source_code, RunCompiler(proc))

\* Path.unlink(missing_ok): the files left, and whether FileNotFoundError is raised
Unlink(files, path, missing_ok) ==
    [files |-> files \ {path}, raised |-> path \notin files /\ ~missing_ok]

\* the finally clause: after it, the outcome of the try block stands unless
\* unlink itself raised
ValidateFinally(body, fin) ==
    IF fin.raised
    THEN [raised |-> TRUE, exc |-> "FileNotFoundError",
          result |-> NoResult, files |-> fin.files]
    ELSE [raised |-> body.raised, exc |-> body.exc,
          result |-> body.result, files |-> fin.files]

\* validate, on a file system holding `files`: the temporary file `path` is
\* created and written before the try block is entered (lines 107-110), so a
\* failing write (OSError, UnicodeEncodeError) leaves through the with
\* statement alone; otherwise the
\* finally clause unlinks the file.  `removed` says that the file was removed
\* by someone else while the compiler ran.
Validate(files, path, source_code, proc, writeFails, removed) ==
    IF writeFails
    THEN [raised |-> TRUE, exc |-> "WriteError", result |-> NoResult,
          files |-> files \cup {path}]
    ELSE ValidateFinally(
            ValidateBody(source_code, proc),
            Unlink(IF removed THEN files \ {path} ELSE files \cup {path}, path, TRUE))

(***************************************************************************)
(* The inputs explored                                                     *)
(***************************************************************************)
MaxExitCode == 1

Stderrs ==
    { "",
      "ERROR [E-PARSE-001] at line 10: Unexpected token",
      "warning: unused variable",
      "Error: while type checking\n  error[E-TYPE-005]: mismatch",
      "WARNING [W-STYLE-001]: Consider using more descriptive names" }

Stdouts ==
    { "",
      "[]",
      "[{\"severity\":\"warning\",\"code\":\"W-STYLE-001\",\"message\":\"style nit\"}]",
      "{\"code\":\"E-TYPE-005\",\"message\":\"bad type\",\"line\":3}",
      "[{\"severity\":\"fatal\",\"code\":\"E-PARSE-001\",\"message\":\"boom\"}]",
      "[1]",
      "[{\"severity\":\"error\"",
      "[{\"severity\":\"info\",\"message\":\"note\"}, {\"code\":\"E-EFFECT-002\",\"message\":\"io\"}]",
      "{\"severity\":\"info\",\"message\":\"note\"}",
      "Parsing main.cov\nok",
      "{\"code\":7}",
      "[INFO] done",
      "ERROR [E-PARSE-001] at line 10: Unexpected token" }

Procs ==
    {ProcExit(rc, out, err) : rc \in 0..MaxExitCode, out \in Stdouts, err \in Stderrs}
        \cup {ProcTimeout, ProcNotFound}

Sources == {"snippet a", "snippet b"}

(***************************************************************************)
(* generation_harness.py                                                   *)
(***************************************************************************)
\* GenerationAttempt (duration_ms, a wall-clock reading, is left out)
GenerationAttempt(attempt_number, prompt_tokens, completion_tokens, code, vr) ==
    [attempt_number |-> attempt_number, prompt_tokens |-> prompt_tokens,
     completion_tokens |-> completion_tokens, generated_code |-> code,
     validation_result |-> vr]

NoAttempt == GenerationAttempt(0, 0, 0, "", PyNone)

\* what _call_llm does: the provider's reply, or the provider's fault
LlmReply(code, prompt_tokens, completion_tokens) ==
    [raised |-> FALSE, code |-> code, prompt_tokens |-> prompt_tokens,
     completion_tokens |-> completion_tokens]

LlmFault == [raised |-> TRUE, code |-> "", prompt_tokens |-> 0, completion_tokens |-> 0]

\* the GenerationAttempt built from the model's reply and the outcome v of
\* validate; an exception raised by validate leaves generate
AttemptOf(attempt_number, llm, v) ==
    IF v.raised
    THEN [raised |-> TRUE, validated |-> TRUE, attempt |-> NoAttempt, files |-> v.files]
    ELSE [raised |-> FALSE, validated |-> TRUE,
          attempt |-> GenerationAttempt(attempt_number, llm.prompt_tokens,
                                        llm.completion_tokens, llm.code, v.result),
          files |-> v.files]

\* the common body of _generate_attempt and _generate_correction after the
\* prompt is built: call the model, validate its text, build the attempt.
\* `env` is what the validator's surroundings do in this call.
RunAttempt(attempt_number, llm, files, path, env) ==
    IF llm.raised
    THEN [raised |-> TRUE, validated |-> FALSE, attempt |-> NoAttempt, files |-> files]
    ELSE AttemptOf(attempt_number, llm,
                   Validate(files, path, llm.code, env.proc, env.writeFails, FALSE))

\* mutant: an attempt counts as succeeded as soon as it was validated
AttemptSucceededWhenValidated(vr) == vr # PyNone

\* `validation_result is not None and validation_result.success`
AttemptSucceeded(vr) == vr # PyNone /\ vr.success

\* mutant: the range runs one round too far
InRangeOneMore(round_num, max_correction_rounds) ==
    round_num <= max_correction_rounds + 2

\* for round_num in range(2, self.max_correction_rounds + 2)
InRange(round_num, max_correction_rounds) == round_num < max_correction_rounds + 2

\* mutant: the loop does not look at the success of the last attempt
NoBreakOnSuccess(final_success, current_validation) == current_validation # PyNone

\* neither break of the loop body is taken (lines 197-201)
NoBreak(final_success, current_validation) ==
    /\ ~final_success
    /\ ~(current_validation = PyNone \/ current_validation.success)

RECURSIVE SumPromptTokens(_)
SumPromptTokens(as) ==
    IF as = <<>> THEN 0 ELSE Head(as).prompt_tokens + SumPromptTokens(Tail(as))

RECURSIVE SumCompletionTokens(_)
SumCompletionTokens(as) ==
    IF as = <<>> THEN 0 ELSE Head(as).completion_tokens + SumCompletionTokens(Tail(as))

\* dollars per million prompt / completion tokens
InputRate == 3

OutputRate == 15

\* mutant: completion tokens are charged at the rate of prompt tokens
CostAtInputRate(total_prompt, total_completion) ==
    total_prompt * InputRate + total_completion * InputRate

\* total_cost, in millionths of a dollar
CostMicroUsd(total_prompt, total_completion) ==
    total_prompt * InputRate + total_completion * OutputRate

\* mutant: no error codes are collected
ErrorCodesDropped(current_validation) == <<>>

\* error_codes: the codes of the current validation when it did not succeed
ErrorCodes(current_validation) ==
    IF current_validation # PyNone /\ ~current_validation.success
    THEN GetErrorCodes(current_validation)
    ELSE <<>>

\* GenerationMetrics (task_id, task_type, timestamp, total_duration_ms left out)
GenerationMetrics(as, first_pass_success, final_success, current_validation) ==
    [attempts |-> as,
     total_attempts |-> Len(as),
     first_pass_success |-> first_pass_success,
     final_success |-> final_success,
     total_prompt_tokens |-> SumPromptTokens(as),
     total_completion_tokens |-> SumCompletionTokens(as),
     total_cost_micro_usd |-> CostMicroUsd(SumPromptTokens(as), SumCompletionTokens(as)),
     error_codes |-> ErrorCodes(current_validation)]

NoMetrics == GenerationMetrics(<<>>, FALSE, FALSE, PyNone)

MaxCorrectionRounds == 2

LlmOutcomes ==
    { LlmReply("snippet a", 100, 50), LlmReply("snippet b", 7, 0), LlmFault }

\* str(n) of a natural number
RECURSIVE NatToStr(_)
NatToStr(n) ==
    IF n < 10 THEN Ch("0123456789", n + 1)
    ELSE NatToStr(n \div 10) \o Ch("0123456789", (n % 10) + 1)

\* str(v), as an f-string formats a field of a CompilerError
PyFormat(v) ==
    CASE v.t = "str" -> v.s
      [] v.t = "int" -> IF v.i < 0 THEN "-" \o NatToStr(0 - v.i) ELSE NatToStr(v.i)
      [] v.t = "float" -> v.f
      [] v.t = "bool" -> IF v.b THEN "True" ELSE "False"
      [] v.t = "null" -> "None"

\* the truth value of v, as `if e.line` takes it
Truthy(v) ==
    CASE v.t = "null" -> FALSE
      [] v.t = "int" -> v.i # 0
      [] v.t = "str" -> v.s # ""
      [] v.t = "bool" -> v.b
      [] v.t = "float" -> v.f \notin {"0.0", "-0.0", "0e0"}
      [] v.t = "list" -> v.items # <<>>
      [] v.t = "dict" -> v.pairs # <<>>

\* f"[{e.code}] {e.message}" + (f" at line {e.line}" if e.line else "")
ErrorText(e) ==
    "[" \o PyFormat(e.code) \o "] " \o PyFormat(e.message)
        \o (IF Truthy(e.line) THEN " at line " \o PyFormat(e.line) ELSE "")

\* "\n".join(texts)
RECURSIVE JoinLines(_)
JoinLines(texts) ==
    IF texts = <<>> THEN ""
    ELSE IF Len(texts) = 1 THEN texts[1]
    ELSE texts[1] \o "\n" \o JoinLines(Tail(texts))

\* errors[:5]
FirstErrors(errors) == SubSeq(errors, 1, IF Len(errors) < 5 THEN Len(errors) ELSE 5)

\* errors_text of _build_correction_prompt
ErrorsText(shown) == JoinLines([k \in 1..Len(shown) |-> ErrorText(shown[k])])

\* the fixed text of the correction prompt before the code, between the code
\* and the errors, and after the errors
\* the code fence of the prompt: three backquotes in the source, written with
\* tildes here because a TLA+ string cannot hold a backquote
Fence == "~~~"

PromptHead ==
    "The following Covenant code has compilation errors. Fix them.\n\nORIGINAL CODE:\n"
        \o Fence \o "\n"

PromptMiddle == "\n" \o Fence \o "\n\nCOMPILER ERRORS:\n"

PromptTail ==
    "\n\nGenerate corrected Covenant code that fixes all errors.\n"
        \o "Preserve all functionality while fixing:\n"
        \o "- Effect transitivity violations\n"
        \o "- Pattern match exhaustiveness\n"
        \o "- Canonical ordering issues\n"
        \o "- SSA form violations\n"
        \o "- Type mismatches\n\n"
        \o "Output ONLY the corrected Covenant code, no explanation.\n"

\* _build_correction_prompt
BuildCorrectionPrompt(previous_code, errors) ==
    PromptHead \o previous_code \o PromptMiddle
        \o ErrorsText(FirstErrors(errors)) \o PromptTail

\* a compiler report of six errors
SixErrors ==
    "ERROR [E-PARSE-001] at line 1: first\nERROR [E-PARSE-002] at line 2: second\n"
        \o "ERROR [E-TYPE-003] at line 3: third\nERROR [E-TYPE-004] at line 4: fourth\n"
        \o "ERROR [E-EFFECT-005] at line 5: fifth\nERROR [E-CODEGEN-006] at line 6: sixth"

\* the surroundings of the validator within generate: the compiler accepts,
\* reports in text, reports in JSON, prints a record the parser chokes on,
\* the temporary file cannot be written, the compiler reports six errors,
\* or an error at line 0
HarnessEnvs ==
    { [proc |-> ProcExit(0, "", ""), writeFails |-> FALSE],
      [proc |-> ProcExit(1, "", "ERROR [E-PARSE-001] at line 10: Unexpected token"),
       writeFails |-> FALSE],
      [proc |-> ProcExit(1, "{\"code\":\"E-TYPE-005\",\"message\":\"bad type\",\"line\":3}", ""),
       writeFails |-> FALSE],
      [proc |-> ProcExit(1, "[{\"severity\":\"fatal\",\"code\":\"E-PARSE-001\",\"message\":\"boom\"}]", ""),
       writeFails |-> FALSE],
      [proc |-> ProcExit(0, "", ""), writeFails |-> TRUE],
      [proc |-> ProcExit(1, "", SixErrors), writeFails |-> FALSE],
      [proc |-> ProcExit(1, "{\"code\":\"E-TYPE-009\",\"message\":\"bad module\",\"line\":0}", ""),
       writeFails |-> FALSE] }

\* ModelProvider: the enum's values, which are the choices of --provider
ModelProviders == {"anthropic", "openai", "mock"}

\* the default of the parameter model_provider of GenerationHarness.__init__
DefaultModelProvider == "anthropic"

\* the default of --provider
DefaultProviderArg == "mock"

\* the outcome of building something: the thing, or the exception raised
Built(value) == [raised |-> FALSE, exc |-> "", value |-> value]

BuildRaised(exc) == [raised |-> TRUE, exc |-> exc, value |-> ""]

\* the client of a real provider: the import, then the key of the environment
RealClient(name, installed, key) ==
    IF ~installed THEN BuildRaised("ImportError")
    ELSE IF ~key THEN BuildRaised("ValueError")
    ELSE Built(name)

\* _init_api_client: no client in mock mode
InitApiClient(model_provider, env) ==
    IF model_provider = "mock" THEN Built("none")
    ELSE IF model_provider = "anthropic"
         THEN RealClient("anthropic", env.anthropic_installed, env.anthropic_key)
    ELSE IF model_provider = "openai"
         THEN RealClient("openai", env.openai_installed, env.openai_key)
    ELSE BuildRaised("ValueError")

\* the harness whose client is c, or the exception of building c
HarnessWith(model_provider, c) ==
    IF c.raised THEN c
    ELSE Built([model_provider |-> model_provider, client |-> c.value])

\* GenerationHarness.__init__: the condensed spec is read, then the client built
NewGenerationHarness(model_provider, env) ==
    IF ~env.spec_file THEN BuildRaised("FileNotFoundError")
    ELSE HarnessWith(model_provider, InitApiClient(model_provider, env))

\* line 467 of run_test_suite: harness = GenerationHarness()
SuiteHarnessOf(provider_arg, env) == NewGenerationHarness(DefaultModelProvider, env)

\* the requests one call of _call_llm sends: none in mock mode, one through
\* the Anthropic client, none for a provider that is not implemented
RequestsOfCall(harness) == IF harness.model_provider = "anthropic" THEN 1 ELSE 0

\* the places main may run in
MainEnvs ==
    [spec_file : BOOLEAN, anthropic_installed : BOOLEAN, anthropic_key : BOOLEAN,
     openai_installed : BOOLEAN, openai_key : BOOLEAN]

\* answers to "Continue? (yes/no): "
Responses == {"yes", "Y", "no"}

(***************************************************************************)
(* State                                                                   *)
(***************************************************************************)
VARIABLES
    tempFiles,   \* the temporary source files on disk
    vpc,         \* a call of validate: "idle", then "returned" or "raised"
    vIn,         \* the inputs of the call
    vOut,        \* its outcome: the ValidationResult, or the exception raised
    hpc,         \* a call of generate: "init", "loop", then "returned" or "raised"
    maxRounds,   \* self.max_correction_rounds
    attempts,    \* generate's local list of attempts
    roundNum,    \* the loop variable round_num
    firstPass,   \* first_pass_success
    finalSuccess,       \* final_success
    currentValidation,  \* current_validation
    llmCalls,    \* calls of _call_llm made by this generate
    validateCalls,      \* calls of validator.validate made by this generate
    correctionPrompts,  \* calls of _build_correction_prompt made by this generate
    currentCode, \* current_code
    prompts,     \* the correction prompts built by this generate, in order
    metrics,     \* the GenerationMetrics returned
    selPc,       \* a call of ExampleSelector.select: "idle", then "returned"
    selIn,       \* its arguments
    selOut,      \* the list it returned
    phPc,        \* a call of _determine_phase: "idle", then "returned"
    phIn,        \* its arguments
    phOut,       \* the phase it returned, or that it raised
    spc,         \* a batch run: "init", "loop", "returned", "summarised",
                 \* "analysed", or "raised", "summary_raised",
                 \* "analysis_raised" when an exception ended it
    tasks,       \* the task list given to run_test_suite
    outputGiven, \* whether run_test_suite was given an output file
    taskIdx,     \* the position of the loop of run_test_suite in tasks
    results,     \* run_test_suite's local list of metrics
    outFile,     \* the output file: whether it exists, and its lines
    notes,       \* the tasks for which "ERROR in task" was printed
    summary,     \* what print_summary printed
    analysis,    \* what analyze_results printed
    mpc,         \* a run of main: "init", "confirm", "run", "suite", then
                 \* "called", or "aborted", or "raised"
    mainArgs,    \* the parsed command line
    mainEnv,     \* what is installed and set where main runs
    suiteHarness,       \* the harness run_test_suite built
    mainExc,     \* the exception that ended main
    apiCalls     \* requests sent to a provider by the first call of _call_llm

vvars == <<vpc, vIn, vOut>>

hvars == <<hpc, maxRounds, attempts, roundNum, firstPass, finalSuccess,
           currentValidation, llmCalls, validateCalls, correctionPrompts, metrics,
           currentCode, prompts>>

selvars == <<selPc, selIn, selOut>>

phvars == <<phPc, phIn, phOut>>

svars == <<spc, tasks, outputGiven, taskIdx, results, outFile, notes, summary, analysis>>

\* the state of the operations a specification does not run
mvars == <<mpc, mainArgs, mainEnv, suiteHarness, mainExc, apiCalls>>

ovars == <<selvars, phvars, svars, mvars>>

vars == <<tempFiles, vvars, hvars, ovars>>

\* the name tempfile.NamedTemporaryFile gives the file of the call
TempPath == "tmp.cov"

\* ... and the file of the n-th call made within one generate
TempPathOf(n) ==
    CASE n = 1 -> "tmp1.cov" [] n = 2 -> "tmp2.cov" [] n = 3 -> "tmp3.cov"
      [] OTHER -> "tmp4.cov"

NoInput == [source_code |-> "", proc |-> ProcExit(0, "", ""),
            writeFails |-> FALSE, removed |-> FALSE]

NoOutcome == [raised |-> FALSE, exc |-> "", result |-> NoResult, files |-> {}]

ValidatorIdle ==
    /\ vpc = "idle"
    /\ vIn = NoInput
    /\ vOut = NoOutcome

HarnessIdle ==
    /\ hpc = "init"
    /\ attempts = <<>>
    /\ roundNum = 2
    /\ firstPass = FALSE
    /\ finalSuccess = FALSE
    /\ currentValidation = PyNone
    /\ llmCalls = 0
    /\ validateCalls = 0
    /\ correctionPrompts = 0
    /\ metrics = NoMetrics
    /\ currentCode = ""
    /\ prompts = <<>>

NoSelection == [task_type |-> "general", max_tokens |-> 0, max_examples |-> 0]

SelectorIdle ==
    /\ selPc = "idle"
    /\ selIn = NoSelection
    /\ selOut = <<>>

NoPhaseInput == [result |-> CompletedProcess(0, "", ""), errors |-> <<>>]

NoPhase == [raised |-> FALSE, phase |-> ""]

PhaseIdle ==
    /\ phPc = "idle"
    /\ phIn = NoPhaseInput
    /\ phOut = NoPhase

\* no output file on disk
NoFile == [exists |-> FALSE, lines |-> <<>>]

NoSummary == [total |-> 0, first_pass |-> 0, final |-> 0, all_errors |-> <<>>]

NoAnalysis == [total |-> 0, report |-> FALSE]

SuiteIdle ==
    /\ spc = "init"
    /\ tasks = <<>>
    /\ outputGiven = FALSE
    /\ taskIdx = 1
    /\ results = <<>>
    /\ outFile = NoFile
    /\ notes = <<>>
    /\ summary = NoSummary
    /\ analysis = NoAnalysis

NoArgs == [provider |-> ""]

NoEnv ==
    [spec_file |-> FALSE, anthropic_installed |-> FALSE, anthropic_key |-> FALSE,
     openai_installed |-> FALSE, openai_key |-> FALSE]

NoHarness == [model_provider |-> "", client |-> ""]

MainIdle ==
    /\ mpc = "init"
    /\ mainArgs = NoArgs
    /\ mainEnv = NoEnv
    /\ suiteHarness = NoHarness
    /\ mainExc = ""
    /\ apiCalls = 0

OthersIdle == SelectorIdle /\ PhaseIdle /\ SuiteIdle /\ MainIdle

(***************************************************************************)
(* CompilerValidator.validate, called once                                 *)
(***************************************************************************)
InitValidator ==
    /\ tempFiles = {}
    /\ ValidatorIdle
    /\ HarnessIdle
    /\ maxRounds = 0
    /\ OthersIdle

\* the state after validate ended with outcome out
ValidateEnds(out) ==
    /\ vOut' = out
    /\ tempFiles' = out.files
    /\ vpc' = IF out.raised THEN "raised" ELSE "returned"

\* one call of CompilerValidator.validate
ValidateCall ==
    /\ vpc = "idle"
    /\ \E src \in Sources, proc \in Procs, writeFails \in BOOLEAN, removed \in BOOLEAN :
          /\ vIn' = [source_code |-> src, proc |-> proc,
                     writeFails |-> writeFails, removed |-> removed]
          /\ ValidateEnds(Validate(tempFiles, TempPath, src, proc, writeFails, removed))
    /\ UNCHANGED <<hvars, ovars>>

NextValidator == ValidateCall

SpecValidator == InitValidator /\ [][NextValidator]_vars

(***************************************************************************)
(* GenerationHarness.generate, called once on a harness built with         *)
(* max_correction_rounds = maxRounds                                       *)
(***************************************************************************)
InitHarness ==
    /\ tempFiles = {}
    /\ ValidatorIdle
    /\ HarnessIdle
    /\ maxRounds \in 0..MaxCorrectionRounds
    /\ OthersIdle

\* the calls made by an attempt r, and the files it leaves
AttemptCalls(r) ==
    /\ llmCalls' = llmCalls + 1
    /\ validateCalls' = IF r.validated THEN validateCalls + 1 ELSE validateCalls
    /\ tempFiles' = r.files

\* lines 180-194, after _generate_attempt returned r or raised
AfterAttempt1(r) ==
    /\ AttemptCalls(r)
    /\ IF r.raised
       THEN /\ hpc' = "raised"
            /\ UNCHANGED <<attempts, firstPass, finalSuccess, currentValidation,
                           currentCode>>
       ELSE /\ hpc' = "loop"
            /\ attempts' = Append(attempts, r.attempt)
            /\ firstPass' = AttemptSucceeded(r.attempt.validation_result)
            /\ currentCode' = r.attempt.generated_code
            /\ currentValidation' = r.attempt.validation_result
            /\ finalSuccess' = AttemptSucceeded(r.attempt.validation_result)

\* lines 161-194: attempt 1 and the values the loop starts from
Attempt1 ==
    /\ hpc = "init"
    /\ \E llm \in LlmOutcomes, env \in HarnessEnvs :
          AfterAttempt1(RunAttempt(1, llm, tempFiles, TempPathOf(1), env))
    /\ UNCHANGED <<vvars, maxRounds, roundNum, correctionPrompts, metrics, prompts,
                   ovars>>

\* lines 217-224, after _generate_correction returned r or raised
AfterCorrection(r) ==
    /\ AttemptCalls(r)
    /\ IF r.raised
       THEN /\ hpc' = "raised"
            /\ UNCHANGED <<attempts, finalSuccess, currentValidation, roundNum,
                           currentCode>>
       ELSE /\ hpc' = "loop"
            /\ attempts' = Append(attempts, r.attempt)
            /\ currentCode' = r.attempt.generated_code
            /\ currentValidation' = r.attempt.validation_result
            /\ finalSuccess' = AttemptSucceeded(r.attempt.validation_result)
            /\ roundNum' = roundNum + 1

\* lines 196-227: one iteration of the loop that reaches _generate_correction
CorrectionRound ==
    /\ hpc = "loop"
    /\ InRange(roundNum, maxRounds)
    /\ NoBreak(finalSuccess, currentValidation)
    /\ correctionPrompts' = correctionPrompts + 1
    /\ prompts' = Append(prompts,
                         BuildCorrectionPrompt(currentCode, currentValidation.errors))
    /\ \E llm \in LlmOutcomes, env \in HarnessEnvs :
          AfterCorrection(RunAttempt(roundNum, llm, tempFiles, TempPathOf(roundNum), env))
    /\ UNCHANGED <<vvars, maxRounds, firstPass, metrics, ovars>>

\* the loop ends (range exhausted, or a break) and lines 229-257 build the
\* metrics that generate returns
ReturnMetrics ==
    /\ hpc = "loop"
    /\ ~(InRange(roundNum, maxRounds) /\ NoBreak(finalSuccess, currentValidation))
    /\ metrics' = GenerationMetrics(attempts, firstPass, finalSuccess, currentValidation)
    /\ hpc' = "returned"
    /\ UNCHANGED <<tempFiles, vvars, maxRounds, attempts, roundNum, firstPass,
                   finalSuccess, currentValidation, llmCalls, validateCalls,
                   correctionPrompts, currentCode, prompts, ovars>>

NextHarness == Attempt1 \/ CorrectionRound \/ ReturnMetrics

SpecHarness == InitHarness /\ [][NextHarness]_vars

(***************************************************************************)
(* example_selector.py                                                     *)
(***************************************************************************)
\* the values of TaskType
TaskTypes ==
    { "pure_function", "effectful_function", "crud_operation", "error_handling",
      "pattern_matching", "type_definition", "database_binding", "query_covenant",
      "query_sql", "transaction", "migration", "refactoring", "general" }

\* Example (the title, used for display only, is left out)
Example(path, categories, approx_tokens, priority) ==
    [path |-> path, categories |-> categories,
     approx_tokens |-> approx_tokens, priority |-> priority]

\* the example catalog
EXAMPLES ==
    << Example("examples/01-hello-world.cov", <<"effectful_function">>, 80, 3),
       Example("examples/02-pure-functions.cov", <<"pure_function">>, 350, 9),
       Example("examples/04-error-handling.cov",
               <<"error_handling", "type_definition">>, 800, 9),
       Example("examples/10-pattern-matching.cov",
               <<"pattern_matching", "type_definition">>, 550, 8),
       Example("examples/16-database-dialects.cov",
               <<"query_sql", "database_binding", "crud_operation", "transaction">>,
               1200, 8),
       Example("examples/14-project-queries.cov", <<"query_covenant">>, 650, 7),
       Example("examples/06-database-access.cov",
               <<"crud_operation", "effectful_function">>, 450, 6),
       Example("examples/07-multiple-effects.cov", <<"effectful_function">>, 420, 6),
       Example("examples/11-extern-bindings.cov", <<"effectful_function">>, 700, 5),
       Example("examples/13-database-module.cov", <<"database_binding">>, 700, 7),
       Example("examples/15-ast-mutations.cov", <<"refactoring">>, 800, 5) >>

\* _get_related_categories
GetRelatedCategories(task_type) ==
    CASE task_type = "pure_function" -> <<"pattern_matching">>
      [] task_type = "effectful_function" -> <<"error_handling">>
      [] task_type = "crud_operation" ->
            <<"query_sql", "query_covenant", "database_binding">>
      [] task_type = "error_handling" -> <<"pattern_matching", "type_definition">>
      [] task_type = "pattern_matching" -> <<"type_definition", "error_handling">>
      [] task_type = "query_sql" -> <<"crud_operation", "database_binding">>
      [] task_type = "query_covenant" -> <<"crud_operation">>
      [] task_type = "transaction" -> <<"crud_operation", "query_sql">>
      [] OTHER -> <<>>

\* x in list
InList(x, list) == \E k \in 1..Len(list) : list[k] = x

\* the loop of lines 186-188 from position k on: 10 for each category of the
\* example that is related
RECURSIVE RelatedScore(_, _, _)
RelatedScore(categories, related, k) ==
    IF k > Len(categories) THEN 0
    ELSE (IF InList(categories[k], related) THEN 10 ELSE 0)
            + RelatedScore(categories, related, k + 1)

\* mutant: the priority is not doubled
ScoreExampleSinglePriority(example, task_type) ==
    (IF InList(task_type, example.categories) THEN 50 ELSE 0)
        + RelatedScore(example.categories, GetRelatedCategories(task_type), 1)
        + example.priority
        + (IF example.approx_tokens < 500 THEN 5 ELSE 0)

\* mutant: no priority boost
ScoreExampleWithoutPriority(example, task_type) ==
    (IF InList(task_type, example.categories) THEN 50 ELSE 0)
        + RelatedScore(example.categories, GetRelatedCategories(task_type), 1)
        + (IF example.approx_tokens < 500 THEN 5 ELSE 0)

\* _score_example
ScoreExample(example, task_type) ==
    (IF InList(task_type, example.categories) THEN 50 ELSE 0)
        + RelatedScore(example.categories, GetRelatedCategories(task_type), 1)
        + example.priority * 2
        + (IF example.approx_tokens < 500 THEN 5 ELSE 0)

\* mutant: an example of score 0 is a candidate too
ScoredPairNonNegative(score, ex) ==
    IF score >= 0 THEN << [score |-> score, ex |-> ex] >> ELSE <<>>

\* one (score, ex) pair of the list scored, when the score is positive
ScoredPair(score, ex) ==
    IF score > 0 THEN << [score |-> score, ex |-> ex] >> ELSE <<>>

\* lines 149-153: the list scored, from catalog position k on
RECURSIVE Scored(_, _, _)
Scored(examples, task_type, k) ==
    IF k > Len(examples) THEN <<>>
    ELSE ScoredPair(ScoreExample(examples[k], task_type), examples[k])
            \o Scored(examples, task_type, k + 1)

\* list.sort is stable, with reverse=True too: a pair goes behind the pairs
\* of greater or equal score that were before it
RECURSIVE InsertByScore(_, _)
InsertByScore(sorted, x) ==
    IF sorted = <<>> THEN <<x>>
    ELSE IF Head(sorted).score >= x.score
         THEN <<Head(sorted)>> \o InsertByScore(Tail(sorted), x)
         ELSE <<x>> \o sorted

\* scored.sort(key=lambda x: x[0], reverse=True), having sorted the first
\* k - 1 pairs
RECURSIVE SortByScore(_, _, _)
SortByScore(scored, k, sorted) ==
    IF k > Len(scored) THEN sorted
    ELSE SortByScore(scored, k + 1, InsertByScore(sorted, scored[k]))

\* mutant: an example fits when it fits the budget by itself
FitsAlone(total_tokens, approx_tokens, max_tokens) == approx_tokens <= max_tokens

\* mutant: an example that uses up the budget exactly does not fit
FitsStrictly(total_tokens, approx_tokens, max_tokens) ==
    total_tokens + approx_tokens < max_tokens

\* total_tokens + ex.approx_tokens <= max_tokens
Fits(total_tokens, approx_tokens, max_tokens) ==
    total_tokens + approx_tokens <= max_tokens

\* mutant: the loop ends at the first example that does not fit
RECURSIVE SelectLoopUntilMisfit(_, _, _, _, _, _)
SelectLoopUntilMisfit(scored, k, selected, total_tokens, max_tokens, max_examples) ==
    IF k > Len(scored) THEN selected
    ELSE IF Len(selected) >= max_examples THEN selected
    ELSE IF Fits(total_tokens, scored[k].ex.approx_tokens, max_tokens)
         THEN SelectLoopUntilMisfit(scored, k + 1, Append(selected, scored[k].ex),
                                    total_tokens + scored[k].ex.approx_tokens,
                                    max_tokens, max_examples)
         ELSE selected

\* lines 162-167: the loop over scored, from position k on
RECURSIVE SelectLoop(_, _, _, _, _, _)
SelectLoop(scored, k, selected, total_tokens, max_tokens, max_examples) ==
    IF k > Len(scored) THEN selected
    ELSE IF Len(selected) >= max_examples THEN selected
    ELSE IF Fits(total_tokens, scored[k].ex.approx_tokens, max_tokens)
         THEN SelectLoop(scored, k + 1, Append(selected, scored[k].ex),
                         total_tokens + scored[k].ex.approx_tokens,
                         max_tokens, max_examples)
         ELSE SelectLoop(scored, k + 1, selected, total_tokens,
                         max_tokens, max_examples)

\* ExampleSelector.select, on the catalog self.examples = EXAMPLES
Select(task_type, max_tokens, max_examples) ==
    SelectLoop(SortByScore(Scored(EXAMPLES, task_type, 1), 1, <<>>),
               1, <<>>, 0, max_tokens, max_examples)

\* the budgets explored
MaxExamplesBound == 4

TokenBudgets == {0, 79, 80, 430, 500, 1000, 1500, 2450}

\* mutant: the database rule is tried before the query rule
KeywordRulesDatabaseFirst ==
    << [kws |-> {"pure", "no effect", "calculation", "compute"}, type |-> "pure_function"],
       [kws |-> {"create", "insert", "update", "delete", "crud"}, type |-> "crud_operation"],
       [kws |-> {"error", "handle", "exception", "union"}, type |-> "error_handling"],
       [kws |-> {"match", "pattern", "destructur"}, type |-> "pattern_matching"],
       [kws |-> {"database", "schema", "table"}, type |-> "database_binding"],
       [kws |-> {"query", "select", "sql"}, type |-> "query"],
       [kws |-> {"transaction", "atomic"}, type |-> "transaction"],
       [kws |-> {"struct", "enum", "type"}, type |-> "type_definition"],
       [kws |-> {"migrate", "translate", "convert"}, type |-> "migration"] >>

\* the if statements of get_recommended_for_task, in their order: the
\* keywords tried and the task type returned ("query" stands for the nested
\* choice of lines 264-266)
KeywordRules ==
    << [kws |-> {"pure", "no effect", "calculation", "compute"}, type |-> "pure_function"],
       [kws |-> {"create", "insert", "update", "delete", "crud"}, type |-> "crud_operation"],
       [kws |-> {"error", "handle", "exception", "union"}, type |-> "error_handling"],
       [kws |-> {"match", "pattern", "destructur"}, type |-> "pattern_matching"],
       [kws |-> {"query", "select", "sql"}, type |-> "query"],
       [kws |-> {"database", "schema", "table"}, type |-> "database_binding"],
       [kws |-> {"transaction", "atomic"}, type |-> "transaction"],
       [kws |-> {"struct", "enum", "type"}, type |-> "type_definition"],
       [kws |-> {"migrate", "translate", "convert"}, type |-> "migration"] >>

\* any(kw in desc_lower for kw in kws)
AnyKeywordIn(desc_lower, kws) == \E kw \in kws : Contains(desc_lower, kw)

\* lines 264-266
QueryType(desc_lower) ==
    IF Contains(desc_lower, "postgres") \/ Contains(desc_lower, "mysql")
           \/ Contains(desc_lower, "sql")
    THEN "query_sql"
    ELSE "query_covenant"

\* lines 251-281, from the k-th if statement on
RECURSIVE RecommendFrom(_, _)
RecommendFrom(desc_lower, k) ==
    IF k > Len(KeywordRules) THEN "general"
    ELSE IF AnyKeywordIn(desc_lower, KeywordRules[k].kws)
         THEN (IF KeywordRules[k].type = "query" THEN QueryType(desc_lower)
               ELSE KeywordRules[k].type)
         ELSE RecommendFrom(desc_lower, k + 1)

\* get_recommended_for_task
GetRecommendedForTask(task_description) == RecommendFrom(Lower(task_description), 1)

\* the descriptions explored: two words each
DescriptionWords ==
    { "Compute", "UPDATE", "handle", "destructure", "Select", "query", "mysql",
      "postgres", "SQL", "schema", "atomic", "enum", "convert", "report" }

Descriptions == { a \o " " \o b : a \in DescriptionWords, b \in DescriptionWords }

(***************************************************************************)
(* ExampleSelector.select, called once                                     *)
(***************************************************************************)
InitSelector ==
    /\ tempFiles = {}
    /\ ValidatorIdle
    /\ HarnessIdle
    /\ maxRounds = 0
    /\ OthersIdle

SelectCall ==
    /\ selPc = "idle"
    /\ \E task_type \in TaskTypes, max_tokens \in TokenBudgets,
          max_examples \in 0..MaxExamplesBound :
          /\ selIn' = [task_type |-> task_type, max_tokens |-> max_tokens,
                       max_examples |-> max_examples]
          /\ selOut' = Select(task_type, max_tokens, max_examples)
    /\ selPc' = "returned"
    /\ UNCHANGED <<tempFiles, vvars, hvars, phvars, svars, mvars>>

NextSelector == SelectCall

SpecSelector == InitSelector /\ [][NextSelector]_vars

(***************************************************************************)
(* ExampleSelector.select, called once on a selector whose self.examples   *)
(* holds another catalog than the shipped one                              *)
(***************************************************************************)
\* ExampleSelector.select on the catalog examples
SelectFrom(examples, task_type, max_tokens, max_examples) ==
    SelectLoop(SortByScore(Scored(examples, task_type, 1), 1, <<>>),
               1, <<>>, 0, max_tokens, max_examples)

\* the catalogs explored: up to MaxCatalogLen entries, of priority below, at
\* and above 0, short and long, tagged with the task's category or another
MaxCatalogLen == 2

CatalogPriorities == {0 - 3, 0, 5}

CatalogEntries ==
    { Example("examples/entry.cov", <<tag>>, approx_tokens, priority) :
        tag \in {"pure_function", "refactoring"}, approx_tokens \in {400, 600},
        priority \in CatalogPriorities }

Catalogs == UNION { [1..n -> CatalogEntries] : n \in 0..MaxCatalogLen }

InitCatalog ==
    /\ tempFiles = {}
    /\ ValidatorIdle
    /\ HarnessIdle
    /\ maxRounds = 0
    /\ OthersIdle

SelectFromCall ==
    /\ selPc = "idle"
    /\ \E examples \in Catalogs, task_type \in {"pure_function", "general"},
          max_tokens \in {0, 1500}, max_examples \in {0, 3} :
          /\ selIn' = [examples |-> examples, task_type |-> task_type,
                       max_tokens |-> max_tokens, max_examples |-> max_examples]
          /\ selOut' = SelectFrom(examples, task_type, max_tokens, max_examples)
    /\ selPc' = "returned"
    /\ UNCHANGED <<tempFiles, vvars, hvars, phvars, svars, mvars>>

NextCatalog == SelectFromCall

SpecCatalog == InitCatalog /\ [][NextCatalog]_vars

(***************************************************************************)
(* ExampleSelector.get_recommended_for_task, called once                   *)
(***************************************************************************)
InitRecommend ==
    /\ tempFiles = {}
    /\ ValidatorIdle
    /\ HarnessIdle
    /\ maxRounds = 0
    /\ OthersIdle

RecommendCall ==
    /\ selPc = "idle"
    /\ \E task_description \in Descriptions :
          /\ selIn' = [task_description |-> task_description]
          /\ selOut' = GetRecommendedForTask(task_description)
    /\ selPc' = "returned"
    /\ UNCHANGED <<tempFiles, vvars, hvars, phvars, svars, mvars>>

NextRecommend == RecommendCall

SpecRecommend == InitRecommend /\ [][NextRecommend]_vars

(***************************************************************************)
(* CompilerValidator._determine_phase, called once on a process result     *)
(* and an error list                                                       *)
(***************************************************************************)
MaxErrors == 2

\* the codes of the errors explored: one of each stage, and codes of no stage
PhaseCodes ==
    { "E-PARSE-001", "E-TYPE-005", "E-EFFECT-002", "E-CODEGEN-003",
      "E-UNKNOWN", "W-PARSE-001" }

\* an error-severity CompilerError with the given code
ErrorWithCode(code) ==
    CompilerError(PyStr(code), "error", PyStr("reported"),
                  PyNone, PyNone, PyNone, PyNone, PyNone)

PhaseErrorLists ==
    UNION { [1..n -> {ErrorWithCode(code) : code \in PhaseCodes}] : n \in 0..MaxErrors }

\* the process results explored: no phase indicator, one of them, both
PhaseResults ==
    { CompletedProcess(1, "", ""),
      CompletedProcess(1, "", "Parsing main.cov"),
      CompletedProcess(1, "while Type Checking\n", ""),
      CompletedProcess(1, "PARSING next", "type checking done, "),
      CompletedProcess(1, "ing failed", "pars") }

InitPhase ==
    /\ tempFiles = {}
    /\ ValidatorIdle
    /\ HarnessIdle
    /\ maxRounds = 0
    /\ OthersIdle

DeterminePhaseCall ==
    /\ phPc = "idle"
    /\ \E result \in PhaseResults, errors \in PhaseErrorLists :
          /\ phIn' = [result |-> result, errors |-> errors]
          /\ phOut' = DeterminePhase(result, errors)
    /\ phPc' = "returned"
    /\ UNCHANGED <<tempFiles, vvars, hvars, selvars, svars, mvars>>

NextPhase == DeterminePhaseCall

SpecPhase == InitPhase /\ [][NextPhase]_vars

(***************************************************************************)
(* generation_harness.py: run_test_suite and print_summary;                *)
(* run_evaluation.py: analyze_results and main                             *)
(***************************************************************************)
\* max_correction_rounds of the GenerationHarness() that run_test_suite builds
DefaultMaxCorrectionRounds == 2

\* what the provider and the compiler do in the successive attempts of one
\* task: a sequence of [llm, env], the last one repeated if need be
ScriptAt(script, n) == script[IF n <= Len(script) THEN n ELSE Len(script)]

\* an outcome of generate: the metrics returned, or an exception
GenerateReturned(m, files) == [raised |-> FALSE, metrics |-> m, files |-> files]

GenerateRaised(files) == [raised |-> TRUE, metrics |-> NoMetrics, files |-> files]

\* generate from the top of the loop of line 196 on (GenerateLoop), and from
\* the return of _generate_correction on (GenerateAfter)
RECURSIVE GenerateLoop(_, _, _, _, _, _, _, _)
RECURSIVE GenerateAfter(_, _, _, _, _, _)
GenerateLoop(max_rounds, script, round_num, as, first, final, cv, files) ==
    IF InRange(round_num, max_rounds) /\ NoBreak(final, cv)
    THEN GenerateAfter(max_rounds, script, round_num, as, first,
                       RunAttempt(round_num, ScriptAt(script, round_num).llm, files,
                                  TempPathOf(round_num), ScriptAt(script, round_num).env))
    ELSE GenerateReturned(GenerationMetrics(as, first, final, cv), files)

GenerateAfter(max_rounds, script, round_num, as, first, r) ==
    IF r.raised THEN GenerateRaised(r.files)
    ELSE GenerateLoop(max_rounds, script, round_num + 1, Append(as, r.attempt), first,
                      AttemptSucceeded(r.attempt.validation_result),
                      r.attempt.validation_result, r.files)

\* generate from the return of attempt 1 on (lines 180-194)
GenerateFirst(max_rounds, script, r) ==
    IF r.raised THEN GenerateRaised(r.files)
    ELSE GenerateLoop(max_rounds, script, 2, <<r.attempt>>,
                      AttemptSucceeded(r.attempt.validation_result),
                      AttemptSucceeded(r.attempt.validation_result),
                      r.attempt.validation_result, r.files)

\* GenerationHarness.generate as one call
Generate(max_rounds, script, files) ==
    GenerateFirst(max_rounds, script,
                  RunAttempt(1, ScriptAt(script, 1).llm, files, TempPathOf(1),
                             ScriptAt(script, 1).env))

\* the metrics of a task: GenerationMetrics with its task_id
TaskMetrics(task_id, m) == [task_id |-> task_id] @@ m

\* a validation result that carries CompilerError records
HasDiagnostics(vr) == vr # PyNone /\ (Len(vr.errors) > 0 \/ Len(vr.warnings) > 0)

\* json.dumps(metrics.to_dict()): asdict keeps the ErrorSeverity member of
\* every CompilerError, and json.dumps raises TypeError on an Enum member
JsonSerializable(m) ==
    \A k \in 1..Len(m.attempts) : ~HasDiagnostics(m.attempts[k].validation_result)

\* the line written, kept as the dict json.loads gives back for it (the
\* fields the analysis reads)
MetricsDict(m) ==
    [task_id |-> m.task_id, total_attempts |-> m.total_attempts,
     first_pass_success |-> m.first_pass_success, final_success |-> m.final_success,
     total_prompt_tokens |-> m.total_prompt_tokens,
     total_completion_tokens |-> m.total_completion_tokens,
     total_cost_micro_usd |-> m.total_cost_micro_usd,
     error_codes |-> m.error_codes]

\* lines 488-489: open(output_file, 'a') creates the file, then the line is
\* built and written, unless json.dumps raises
SaveLine(file, m) ==
    IF JsonSerializable(m)
    THEN [raised |-> FALSE,
          file |-> [exists |-> TRUE, lines |-> Append(file.lines, MetricsDict(m))]]
    ELSE [raised |-> TRUE, file |-> [exists |-> TRUE, lines |-> file.lines]]

\* mutant: the loop body has no handler
ExceptNothing(task_id) == FALSE

\* except Exception (line 491): every exception of generate and of the save
\* is caught
ExceptException(task_id) == TRUE

\* the number of results that satisfy the flag
CountFirstPass(rs) == Cardinality({k \in 1..Len(rs) : rs[k].first_pass_success})

CountFinal(rs) == Cardinality({k \in 1..Len(rs) : rs[k].final_success})

\* all_errors: the error_codes of the results, one after the other
RECURSIVE AllErrors(_)
AllErrors(rs) ==
    IF rs = <<>> THEN <<>> ELSE Head(rs).error_codes \o AllErrors(Tail(rs))

\* print_summary: the averages are guarded by total > 0, the percentages of
\* lines 514-515 divide by total
PrintSummary(rs) ==
    IF Len(rs) = 0
    THEN [raised |-> TRUE, exc |-> "ZeroDivisionError", summary |-> NoSummary]
    ELSE [raised |-> FALSE, exc |-> "",
          summary |-> [total |-> Len(rs), first_pass |-> CountFirstPass(rs),
                       final |-> CountFinal(rs), all_errors |-> AllErrors(rs)]]

\* analyze_results: the file is opened for reading, and an empty list of
\* records ends the analysis with "No results to analyze"
AnalyzeResults(file) ==
    IF ~file.exists
    THEN [raised |-> TRUE, exc |-> "FileNotFoundError", analysis |-> NoAnalysis]
    ELSE [raised |-> FALSE, exc |-> "",
          analysis |-> [total |-> Len(file.lines), report |-> Len(file.lines) > 0]]

\* the tasks explored
MaxTasks == 2

ScriptStep(llm, proc, writeFails) ==
    [llm |-> llm, env |-> [proc |-> proc, writeFails |-> writeFails]]

AcceptedStep == ScriptStep(LlmReply("snippet a", 100, 50), ProcExit(0, "", ""), FALSE)

RejectedStep ==
    ScriptStep(LlmReply("snippet b", 100, 50),
               ProcExit(1, "", "ERROR [E-PARSE-001] at line 10: Unexpected token"), FALSE)

WarnedStep ==
    ScriptStep(LlmReply("snippet a", 100, 50),
               ProcExit(0, "", "WARNING [W-STYLE-001]: Consider using more descriptive names"),
               FALSE)

FaultStep == ScriptStep(LlmFault, ProcExit(0, "", ""), FALSE)

\* accepted at once; accepted with a warning; rejected, then accepted;
\* rejected in every attempt; provider fault in attempt 1; in attempt 2;
\* accepted at once by a compiler that would reject a second attempt
SuiteScripts ==
    { <<AcceptedStep>>, <<WarnedStep>>, <<RejectedStep, AcceptedStep>>,
      <<RejectedStep>>, <<FaultStep>>, <<RejectedStep, FaultStep>>,
      <<AcceptedStep, RejectedStep>> }

TaskLists == UNION { [1..n -> SuiteScripts] : n \in 0..MaxTasks }

(***************************************************************************)
(* A batch run: run_test_suite, then print_summary on its result and, when *)
(* an output file was given, analyze_results on the file                   *)
(***************************************************************************)
InitSuite ==
    /\ tempFiles = {}
    /\ ValidatorIdle
    /\ HarnessIdle
    /\ maxRounds = 0
    /\ OthersIdle

\* run_test_suite is called: lines 467-468
SuiteStart ==
    /\ spc = "init"
    /\ tasks' \in TaskLists
    /\ outputGiven' \in BOOLEAN
    /\ spc' = "loop"
    /\ UNCHANGED <<tempFiles, vvars, hvars, selvars, phvars, mvars,
                   taskIdx, results, outFile, notes, summary, analysis>>

\* lines 491-495: the handler prints the note and the loop goes on
TaskFailed(task_id) ==
    /\ notes' = Append(notes, task_id)
    /\ IF ExceptException(task_id)
       THEN spc' = "loop" /\ taskIdx' = taskIdx + 1
       ELSE spc' = "raised" /\ taskIdx' = taskIdx

TaskSucceeded ==
    /\ notes' = notes
    /\ spc' = "loop"
    /\ taskIdx' = taskIdx + 1

\* lines 486-489, with s the outcome of the save
TaskSaved(task_id, s) ==
    /\ outFile' = s.file
    /\ IF s.raised THEN TaskFailed(task_id) ELSE TaskSucceeded

\* lines 476-495, with g the outcome of generate
TaskDone(task_id, g) ==
    /\ tempFiles' = g.files
    /\ IF g.raised
       THEN /\ results' = results
            /\ outFile' = outFile
            /\ TaskFailed(task_id)
       ELSE /\ results' = Append(results, TaskMetrics(task_id, g.metrics))
            /\ IF outputGiven
               THEN TaskSaved(task_id, SaveLine(outFile, TaskMetrics(task_id, g.metrics)))
               ELSE outFile' = outFile /\ TaskSucceeded

\* one iteration of the loop of run_test_suite
SuiteTask ==
    /\ spc = "loop"
    /\ taskIdx <= Len(tasks)
    /\ TaskDone(taskIdx, Generate(DefaultMaxCorrectionRounds, tasks[taskIdx], tempFiles))
    /\ UNCHANGED <<vvars, hvars, selvars, phvars, mvars, tasks, outputGiven, summary, analysis>>

\* line 497: return results
SuiteReturn ==
    /\ spc = "loop"
    /\ taskIdx > Len(tasks)
    /\ spc' = "returned"
    /\ UNCHANGED <<tempFiles, vvars, hvars, selvars, phvars, mvars, tasks, outputGiven,
                   taskIdx, results, outFile, notes, summary, analysis>>

SummaryEnds(p) ==
    /\ summary' = p.summary
    /\ spc' = IF p.raised THEN "summary_raised" ELSE "summarised"

\* print_summary(results), as both main programs call it
PrintSummaryCall ==
    /\ spc = "returned"
    /\ SummaryEnds(PrintSummary(results))
    /\ UNCHANGED <<tempFiles, vvars, hvars, selvars, phvars, mvars, tasks, outputGiven,
                   taskIdx, results, outFile, notes, analysis>>

AnalysisEnds(a) ==
    /\ analysis' = a.analysis
    /\ spc' = IF a.raised THEN "analysis_raised" ELSE "analysed"

\* analyze_results(Path(output_file)), line 250 of run_evaluation.py
AnalyzeResultsCall ==
    /\ spc = "summarised"
    /\ outputGiven
    /\ AnalysisEnds(AnalyzeResults(outFile))
    /\ UNCHANGED <<tempFiles, vvars, hvars, selvars, phvars, mvars, tasks, outputGiven,
                   taskIdx, results, outFile, notes, summary>>

NextSuite ==
    SuiteStart \/ SuiteTask \/ SuiteReturn \/ PrintSummaryCall \/ AnalyzeResultsCall

SpecSuite == InitSuite /\ [][NextSuite]_vars

(***************************************************************************)
(* main of run_evaluation.py in generation mode, up to the first call of   *)
(* the model                                                               *)
(***************************************************************************)
InitMain ==
    /\ tempFiles = {}
    /\ ValidatorIdle
    /\ HarnessIdle
    /\ maxRounds = 0
    /\ OthersIdle

\* lines 185-231: the command line is parsed and the run announced
MainParse ==
    /\ mpc = "init"
    /\ \E provider \in ModelProviders, env \in MainEnvs :
          /\ mainArgs' = [provider |-> provider]
          /\ mainEnv' = env
          /\ mpc' = IF provider # "mock" THEN "confirm" ELSE "run"
    /\ UNCHANGED <<tempFiles, vvars, hvars, selvars, phvars, svars,
                   suiteHarness, mainExc, apiCalls>>

\* lines 231-237: a real provider is confirmed by the user
MainConfirm ==
    /\ mpc = "confirm"
    /\ \E response \in Responses :
          mpc' = IF Lower(response) \in {"yes", "y"} THEN "run" ELSE "aborted"
    /\ UNCHANGED <<tempFiles, vvars, hvars, selvars, phvars, svars,
                   mainArgs, mainEnv, suiteHarness, mainExc, apiCalls>>

\* the harness h was built, or building it raised
HarnessBuilt(h) ==
    /\ mpc' = IF h.raised THEN "raised" ELSE "suite"
    /\ mainExc' = h.exc
    /\ suiteHarness' = IF h.raised THEN suiteHarness ELSE h.value

\* line 243 and line 467 of generation_harness.py: run_test_suite is called
\* and builds its harness
MainRunTestSuite ==
    /\ mpc = "run"
    /\ HarnessBuilt(SuiteHarnessOf(mainArgs.provider, mainEnv))
    /\ UNCHANGED <<tempFiles, vvars, hvars, selvars, phvars, svars,
                   mainArgs, mainEnv, apiCalls>>

\* the first task reaches _call_llm
MainFirstCall ==
    /\ mpc = "suite"
    /\ apiCalls' = apiCalls + RequestsOfCall(suiteHarness)
    /\ mpc' = "called"
    /\ UNCHANGED <<tempFiles, vvars, hvars, selvars, phvars, svars,
                   mainArgs, mainEnv, suiteHarness, mainExc>>

NextMain == MainParse \/ MainConfirm \/ MainRunTestSuite \/ MainFirstCall

SpecMain == InitMain /\ [][NextMain]_vars

(***************************************************************************)
(* Properties of CompilerValidator.validate, checked under SpecValidator   *)
(***************************************************************************)
\* the call has ended and the compiler was run in it
CompilerRan == vpc # "idle" /\ ~vIn.writeFails

\* the process result that the call handed to the parser
ResultParsed == RunCompiler(vIn.proc)

ExitedNonZero == vIn.proc.kind = "exit" /\ vIn.proc.returncode # 0

HasErrorSeverity(errors) == \E k \in 1..Len(errors) : errors[k].severity = "error"

\* C1: whenever the compiler's exit code is non-zero, the ValidationResult has
\* at least one error-severity diagnostic and success = FALSE, on the JSON
\* path as on the line-oriented path.
C1_NonZeroExitNeverSucceeds ==
    (vpc = "returned" /\ ExitedNonZero) =>
        /\ ~vOut.result.success
        /\ HasErrorSeverity(vOut.result.errors)

\* C5: every ValidationResult returned by validate has
\* success = (its errors list is empty).
C5_SuccessIffNoErrors ==
    vpc = "returned" => (vOut.result.success <=> Len(vOut.result.errors) = 0)

\* a compiler that exits with code 0 and still prints an error line
C5_Witness ==
    /\ vpc = "returned"
    /\ vIn.proc.kind = "exit"
    /\ vIn.proc.returncode = 0
    /\ Len(vOut.result.errors) > 0
    /\ ~vOut.result.success

\* C6: once validate has returned or raised, the temporary source file of
\* the call no longer exists, on every exit path, a failed write included.
C6_TempFileRemoved == vpc # "idle" => TempPath \notin tempFiles

\* C7: after a compiler timeout, or when the compiler binary is missing,
\* validate returns (nothing is raised) a result with success = FALSE and
\* exactly one error, of code E-UNKNOWN, carrying the fixed message of the
\* failure.
C7_SubprocessFailuresAbsorbed ==
    (CompilerRan /\ vIn.proc.kind \in {"timeout", "notfound"}) =>
        /\ vpc = "returned"
        /\ ~vOut.result.success
        /\ Len(vOut.result.errors) = 1
        /\ vOut.result.errors[1].code = PyStr("E-UNKNOWN")
        /\ vOut.result.errors[1].severity = "error"
        /\ vOut.result.errors[1].message =
              PyStr(IF vIn.proc.kind = "timeout"
                    THEN "ERROR: Compilation timeout (30s)"
                    ELSE "ERROR: Compiler not found. Run 'cargo build' first.")

C7_Witness ==
    /\ vpc = "returned"
    /\ vIn.proc.kind = "timeout"
    /\ Len(vOut.result.errors) = 1

\* the decoded data is a list of (or a single) diagnostic record: every
\* element is an object whose severity, when given, is error, warning or info
IsDiagnosticRecord(item) ==
    /\ item.t = "dict"
    /\ DictGet(item, "severity", PyStr("error")).t = "str"
    /\ DictGet(item, "severity", PyStr("error")).s \in SeverityValues

WellFormedRecords(data) ==
    /\ data.ok
    /\ IF data.val.t = "dict" THEN IsDiagnosticRecord(data.val)
       ELSE \A k \in 1..Len(data.val.items) : IsDiagnosticRecord(data.val.items[k])

SameLists(vr, parsed) ==
    /\ ~parsed.raised
    /\ vr.errors = parsed.errors
    /\ vr.warnings = parsed.warnings

\* C8: for every combined output that begins with '{' or '[' and is not a
\* well-formed list of diagnostic records, validate raises nothing and its
\* errors and warnings are those of the line-oriented parser.
C8_MalformedJsonFallsBack ==
    (/\ CompilerRan
     /\ LooksLikeJson(CombinedOutput(ResultParsed))
     /\ ~WellFormedRecords(JsonLoads(CombinedOutput(ResultParsed)))) =>
        /\ vpc = "returned"
        /\ SameLists(vOut.result,
                     ParseTextOutput(ResultParsed, CombinedOutput(ResultParsed)))

\* no error line (text path) and no error record (JSON path) was matched
NoErrorMatched(result, output) ==
    IF LooksLikeJson(output) /\ JsonLoads(output).ok
    THEN /\ ~ParseJsonOutput(JsonLoads(output).val).raised
         /\ Len(ParseJsonOutput(JsonLoads(output).val).errors) = 0
    ELSE Len(TextLines(SplitLines(output), 1, <<>>, <<>>).errors) = 0

\* C9: with a non-zero exit code and no error line or record matched, the
\* errors are exactly one E-UNKNOWN error whose message is the combined
\* output, or "Compilation failed" when stdout and stderr are both empty,
\* and success = FALSE.
C9_GenericErrorMessage ==
    (/\ vpc = "returned"
     /\ ExitedNonZero
     /\ NoErrorMatched(ResultParsed, CombinedOutput(ResultParsed))) =>
        /\ ~vOut.result.success
        /\ Len(vOut.result.errors) = 1
        /\ vOut.result.errors[1].code = PyStr("E-UNKNOWN")
        /\ vOut.result.errors[1].message =
              PyStr(IF vIn.proc.stdout = "" /\ vIn.proc.stderr = ""
                    THEN "Compilation failed"
                    ELSE CombinedOutput(ResultParsed))

\* the compiler printed exactly this line, on either stream, and exited with 1
Scenario1 ==
    /\ CompilerRan
    /\ vIn.proc.kind = "exit"
    /\ vIn.proc.returncode = 1
    /\ \/ /\ vIn.proc.stderr = "ERROR [E-PARSE-001] at line 10: Unexpected token"
          /\ vIn.proc.stdout = ""
       \/ /\ vIn.proc.stdout = "ERROR [E-PARSE-001] at line 10: Unexpected token"
          /\ vIn.proc.stderr = ""

OneErrorIs(vr, code, line, message) ==
    /\ Len(vr.errors) = 1
    /\ vr.errors[1].code = PyStr(code)
    /\ vr.errors[1].line = PyInt(line)
    /\ vr.errors[1].message = PyStr(message)

\* C10, as claimed: the line `ERROR [E-PARSE-001] at line 10: Unexpected token`
\* with exit code 1 yields exactly one error with code E-PARSE-001, line 10
\* and message "Unexpected token", phase "parser" and success = FALSE.
C10_Scenario1AsClaimed ==
    Scenario1 =>
        /\ vpc = "returned"
        /\ OneErrorIs(vOut.result, "E-PARSE-001", 10, "Unexpected token")
        /\ vOut.result.phase_reached = "parser"
        /\ ~vOut.result.success

\* C10, amended: ... the message is everything after the code bracket,
\* "at line 10: Unexpected token"; code, line, phase and success as claimed.
C10_Scenario1 ==
    Scenario1 =>
        /\ vpc = "returned"
        /\ OneErrorIs(vOut.result, "E-PARSE-001", 10, "at line 10: Unexpected token")
        /\ vOut.result.phase_reached = "parser"
        /\ ~vOut.result.success

C10_Witness ==
    /\ Scenario1
    /\ vpc = "returned"
    /\ vIn.proc.stdout = ""
    /\ Len(vOut.result.errors) = 1

(***************************************************************************)
(* Properties of GenerationHarness.generate, checked under SpecHarness     *)
(***************************************************************************)
Succeeded(as, k) == as[k].validation_result.success

\* C2: every GenerationMetrics returned by generate has total_attempts equal
\* to the length of its attempts list, at least 1 and at most
\* 1 + max_correction_rounds.
C2_AttemptBound ==
    hpc = "returned" =>
        /\ metrics.total_attempts = Len(metrics.attempts)
        /\ metrics.total_attempts >= 1
        /\ metrics.total_attempts <= 1 + maxRounds

\* every correction round was used
C2_Witness ==
    /\ hpc = "returned"
    /\ maxRounds = MaxCorrectionRounds
    /\ metrics.total_attempts = 1 + maxRounds

\* C3: a successful attempt is the last one and nothing is called after it:
\* when attempt k succeeded, generate makes exactly k model calls, k
\* validations and k - 1 correction prompts; when attempt 1 succeeded the
\* metrics have first_pass_success = final_success = TRUE, total_attempts = 1
\* and no correction prompt was built.
C3_StopsOnFirstSuccess ==
    /\ \A k \in 1..Len(attempts) :
          Succeeded(attempts, k) =>
              /\ k = Len(attempts)
              /\ llmCalls = k
              /\ validateCalls = k
              /\ correctionPrompts = k - 1
    /\ (hpc = "returned" /\ Succeeded(metrics.attempts, 1)) =>
          /\ metrics.first_pass_success
          /\ metrics.final_success
          /\ metrics.total_attempts = 1
          /\ correctionPrompts = 0

\* attempt 1 succeeded although correction rounds were allowed
C3_Witness ==
    /\ hpc = "returned"
    /\ maxRounds >= 1
    /\ Succeeded(metrics.attempts, 1)
    /\ llmCalls = 1

\* C4: first_pass_success is the success flag of attempt 1, during the
\* correction rounds and in the metrics returned; final_success holds iff
\* some attempt of the list succeeded.
C4_SuccessFlags ==
    /\ hpc \in {"loop", "returned"} => firstPass = Succeeded(attempts, 1)
    /\ hpc = "returned" =>
          /\ metrics.first_pass_success = Succeeded(metrics.attempts, 1)
          /\ metrics.final_success <=>
                \E k \in 1..Len(metrics.attempts) : Succeeded(metrics.attempts, k)

\* a correction round repaired a failed first attempt
C4_Witness ==
    /\ hpc = "returned"
    /\ ~metrics.first_pass_success
    /\ metrics.final_success
    /\ metrics.total_attempts >= 2

(***************************************************************************)
(* Properties of ExampleSelector.select, checked under SpecSelector        *)
(***************************************************************************)
RECURSIVE SumApproxTokens(_)
SumApproxTokens(list) ==
    IF list = <<>> THEN 0 ELSE Head(list).approx_tokens + SumApproxTokens(Tail(list))

\* C15: for every category, maxTokens >= 0 and maxExamples >= 0, the list
\* select returns has a total approx_tokens of at most maxTokens and a length
\* of at most maxExamples.
C15_WithinBudgets ==
    selPc = "returned" =>
        /\ SumApproxTokens(selOut) <= selIn.max_tokens
        /\ Len(selOut) <= selIn.max_examples

\* the token budget decided the call: an example that fits the budget by
\* itself was left out because of what was already taken, with room left in
\* the count
C15_Witness ==
    /\ selPc = "returned"
    /\ selOut # <<>>
    /\ Len(selOut) < selIn.max_examples
    /\ \E k \in 1..Len(EXAMPLES) :
          /\ ~InList(EXAMPLES[k], selOut)
          /\ EXAMPLES[k].approx_tokens <= selIn.max_tokens
          /\ SumApproxTokens(selOut) + EXAMPLES[k].approx_tokens > selIn.max_tokens

\* the reference procedure of C16, over catalog positions
RefTags(i) == {EXAMPLES[i].categories[k] : k \in 1..Len(EXAMPLES[i].categories)}

RefRelated(category) ==
    {GetRelatedCategories(category)[k] : k \in 1..Len(GetRelatedCategories(category))}

RefScore(i, category) ==
    (IF category \in RefTags(i) THEN 50 ELSE 0)
        + 10 * Cardinality(RefTags(i) \cap RefRelated(category))
        + 2 * EXAMPLES[i].priority
        + (IF EXAMPLES[i].approx_tokens < 500 THEN 5 ELSE 0)

\* the scores of the catalog positions i, i + 1, ...
RECURSIVE RefScores(_, _)
RefScores(category, i) ==
    IF i > Len(EXAMPLES) THEN <<>>
    ELSE <<RefScore(i, category)>> \o RefScores(category, i + 1)

RefPositive(sc) == {i \in 1..Len(sc) : sc[i] > 0}

\* i comes before j: greater score, or the same score and earlier in the catalog
RefBefore(sc, i, j) == sc[i] > sc[j] \/ (sc[i] = sc[j] /\ i < j)

\* the positions of rank r, r + 1, ... in score-descending order
RECURSIVE RefOrder(_, _)
RefOrder(sc, r) ==
    IF r > Cardinality(RefPositive(sc)) THEN <<>>
    ELSE << CHOOSE i \in RefPositive(sc) :
                Cardinality({j \in RefPositive(sc) : RefBefore(sc, j, i)}) = r - 1 >>
            \o RefOrder(sc, r + 1)

RECURSIVE RefWalk(_, _, _, _, _, _)
RefWalk(order, r, taken, cost, maxTokens, maxExamples) ==
    IF r > Len(order) \/ Len(taken) >= maxExamples THEN taken
    ELSE IF cost + EXAMPLES[order[r]].approx_tokens <= maxTokens
         THEN RefWalk(order, r + 1, Append(taken, EXAMPLES[order[r]]),
                      cost + EXAMPLES[order[r]].approx_tokens, maxTokens, maxExamples)
         ELSE RefWalk(order, r + 1, taken, cost, maxTokens, maxExamples)

RefSelection(category, maxTokens, maxExamples) ==
    RefWalk(RefOrder(RefScores(category, 1), 1), 1, <<>>, 0, maxTokens, maxExamples)

\* the catalog position of an example
CatalogIndex(ex) == CHOOSE i \in 1..Len(EXAMPLES) : EXAMPLES[i] = ex

\* C16: select returns exactly the examples of the reference procedure
\* (score 50 for the category among the tags, 10 per related tag, twice the
\* priority, 5 under 500 tokens; positive scores only; score descending with
\* ties in catalog order; greedy walk that skips what does not fit and stops
\* at maxExamples), in score-descending order.
C16_SelectIsReference ==
    selPc = "returned" =>
        selOut = RefSelection(selIn.task_type, selIn.max_tokens, selIn.max_examples)

\* a call in which an example was skipped and a lower-scored one taken after
\* it, and whose result is not in catalog order
C16_Witness ==
    /\ selPc = "returned"
    /\ \E a, b \in 1..Len(selOut) :
          a < b /\ CatalogIndex(selOut[a]) > CatalogIndex(selOut[b])
    /\ \E i \in RefPositive(RefScores(selIn.task_type, 1)) :
          /\ ~InList(EXAMPLES[i], selOut)
          /\ RefBefore(RefScores(selIn.task_type, 1), i,
                       CatalogIndex(selOut[Len(selOut)]))

(***************************************************************************)
(* Properties of phase inference and of line classification                *)
(***************************************************************************)
Phases == {"parser", "type_check", "effect_check", "codegen", "unknown", "success"}

\* C17: phase inference is total and deterministic: for every process result
\* and error list _determine_phase returns exactly one of parser, type_check,
\* effect_check, codegen, unknown, success, and success exactly when the
\* error list is empty.  Stated on the calls validate makes: once the parser
\* has returned its lists, validate returns a result with such a phase.
C17_PhaseTotal ==
    (CompilerRan /\ ~ParseCompilerOutput(ResultParsed).raised) =>
        /\ vpc = "returned"
        /\ vOut.result.phase_reached \in Phases
        /\ (vOut.result.phase_reached = "success" <=> vOut.result.errors = <<>>)

\* the codes of an error list, as a set
CodeSet(errors) == {errors[k].code.s : k \in 1..Len(errors)}

AnyCodeOfStage(codes, prefix) == \E code \in codes : StartsWith(code, prefix)

\* the priority rule of C18 on the set of codes and the raw output
RefPhase(codes, result) ==
    IF AnyCodeOfStage(codes, "E-PARSE") THEN "parser"
    ELSE IF AnyCodeOfStage(codes, "E-TYPE") THEN "type_check"
    ELSE IF AnyCodeOfStage(codes, "E-EFFECT") THEN "effect_check"
    ELSE IF AnyCodeOfStage(codes, "E-CODEGEN") THEN "codegen"
    ELSE IF Contains(Lower(result.stderr \o result.stdout), "parsing") THEN "parser"
    ELSE IF Contains(Lower(result.stderr \o result.stdout), "type checking")
         THEN "type_check"
    ELSE "unknown"

\* other lists the same errors in another order
IsReordering(errors, other) ==
    /\ Len(other) = Len(errors)
    /\ \A e \in {errors[k] : k \in 1..Len(errors)} :
          Cardinality({k \in 1..Len(errors) : errors[k] = e})
              = Cardinality({k \in 1..Len(other) : other[k] = e})

\* C18: with a non-empty error list the phase is decided by the first
\* matching rule in the fixed priority parse code, type code, effect code,
\* codegen code, "parsing" in the raw output, "type checking" in the raw
\* output, else unknown; the order of the diagnostics in the list does not
\* matter.
C18_PhasePriority ==
    (phPc = "returned" /\ phIn.errors # <<>>) =>
        /\ ~phOut.raised
        /\ phOut.phase = RefPhase(CodeSet(phIn.errors), phIn.result)
        /\ \A other \in PhaseErrorLists :
              IsReordering(phIn.errors, other) =>
                  DeterminePhase(phIn.result, other) = phOut

\* a type-stage error is listed before a parse-stage error, the output names
\* type checking, and the phase is parser
C18_Witness ==
    /\ phPc = "returned"
    /\ Len(phIn.errors) = 2
    /\ StartsWith(phIn.errors[1].code.s, "E-TYPE")
    /\ StartsWith(phIn.errors[2].code.s, "E-PARSE")
    /\ Contains(Lower(phIn.result.stderr \o phIn.result.stdout), "type checking")
    /\ phOut.phase = "parser"

\* the output of the call went through the line-oriented parser
TextPathTaken ==
    /\ CompilerRan
    /\ vpc = "returned"
    /\ \/ ~LooksLikeJson(CombinedOutput(ResultParsed))
       \/ ~JsonLoads(CombinedOutput(ResultParsed)).ok

\* the trimmed lines of the output that start with token, whatever the case
LinesStartingWith(result, token) ==
    {k \in 1..Len(SplitLines(CombinedOutput(result))) :
        StartsWith(Lower(Strip(SplitLines(CombinedOutput(result))[k])), token)}

\* C19: in line-oriented parsing a line is an error diagnostic exactly when
\* its trimmed form starts with "error" in any letter case, a warning
\* diagnostic exactly when it starts with "warning" in any letter case, and
\* every other line gives no diagnostic: so there are as many warnings as
\* warning lines and, when there is an error line, as many errors as error
\* lines.
C19_CaseInsensitiveClassification ==
    TextPathTaken =>
        /\ Len(vOut.result.warnings)
              = Cardinality(LinesStartingWith(ResultParsed, "warning"))
        /\ (LinesStartingWith(ResultParsed, "error") # {} =>
                Len(vOut.result.errors)
                    = Cardinality(LinesStartingWith(ResultParsed, "error")))

(***************************************************************************)
(* Properties of the batch run, checked under SpecSuite                    *)
(***************************************************************************)
\* C11: when run_test_suite is given an output file, the file holds exactly
\* one appended JSON line per task for which generate returned metrics,
\* written before the next task starts, whatever the outcome of the task,
\* diagnostics in its attempts included.
C11_OneLinePerResult ==
    (outputGiven /\ spc # "init") =>
        /\ Len(outFile.lines) = Len(results)
        /\ \A k \in 1..Len(results) : outFile.lines[k].task_id = results[k].task_id

\* the tasks that have a record in results
RecordedTasks == {results[k].task_id : k \in 1..Len(results)}

\* C12: a task whose processing fails with an exception still yields a
\* record, and the total of the batch summary counts every task that was
\* attempted.
C12_FailedTaskRecorded ==
    spc \in {"summarised", "analysed"} =>
        /\ RecordedTasks = 1..Len(tasks)
        /\ summary.total = Len(tasks)

\* generate returns metrics for task i
GenerateReturns(i) == ~Generate(DefaultMaxCorrectionRounds, tasks[i], {}).raised

\* C13: an exception raised while one task is processed does not abort the
\* batch: the tasks after it are processed in order, and run_test_suite
\* returns normally with the metrics of the tasks whose generate returned.
C13_BatchNotAborted ==
    /\ spc # "raised"
    /\ spc # "init" =>
          /\ RecordedTasks = {i \in 1..(taskIdx - 1) : GenerateReturns(i)}
          /\ \A a, b \in 1..Len(results) : a < b => results[a].task_id < results[b].task_id
          /\ \A i \in 1..(taskIdx - 1) :
                ~GenerateReturns(i) => \E k \in 1..Len(notes) : notes[k] = i
    /\ spc \notin {"init", "loop"} => taskIdx = Len(tasks) + 1

\* run_test_suite has returned; generate raised in one task, and a later
\* task has its metrics in the result
C13_Witness ==
    /\ spc = "returned"
    /\ \E i, j \in 1..Len(tasks) :
          /\ i < j
          /\ ~GenerateReturns(i)
          /\ \E k \in 1..Len(notes) : notes[k] = i
          /\ j \in RecordedTasks

\* C14: summarising an empty set of task results completes without a
\* division by zero or any other fault: print_summary on an empty results
\* list, and the end-of-run analysis when no record was persisted.
C14_EmptySummaryCompletes ==
    /\ results = <<>> => spc # "summary_raised"
    /\ outFile.lines = <<>> => spc # "analysis_raised"

(***************************************************************************)
(* Error codes of the metrics, checked under SpecHarness                   *)
(***************************************************************************)
\* the validation outcome of the last attempt of the metrics m
LastValidation(m) == m.attempts[m.total_attempts].validation_result

\* C20: when the attempt bound is exhausted without success the task is
\* reported as failed and error_codes are the error codes of the last
\* attempt's validation outcome, in order; when the task finally succeeds
\* error_codes is empty; so the error histogram of print_summary holds
\* codes only for a task whose final_success is false.
C20_ErrorCodesOfLastAttempt ==
    hpc = "returned" =>
        /\ (/\ metrics.total_attempts = maxRounds + 1
            /\ ~LastValidation(metrics).success) => ~metrics.final_success
        /\ ~metrics.final_success =>
              metrics.error_codes =
                  [k \in 1..Len(LastValidation(metrics).errors) |->
                      LastValidation(metrics).errors[k].code]
        /\ metrics.final_success => metrics.error_codes = <<>>
        /\ AllErrors(<<metrics>>) # <<>> => ~metrics.final_success

\* generate returned after a correction round with the bound exhausted, and
\* the metrics carry the error codes of the last attempt
C20_Witness ==
    /\ hpc = "returned"
    /\ maxRounds >= 1
    /\ metrics.total_attempts = maxRounds + 1
    /\ ~metrics.final_success
    /\ metrics.error_codes # <<>>
    /\ AllErrors(<<metrics>>) = metrics.error_codes

(***************************************************************************)
(* Properties of the correction prompt, checked under SpecHarness          *)
(***************************************************************************)
\* one diagnostic as the claim describes it: code, message, and the line
\* whenever the diagnostic has one
DiagnosticWithLine(e) ==
    "[" \o PyFormat(e.code) \o "] " \o PyFormat(e.message)
        \o (IF e.line # PyNone THEN " at line " \o PyFormat(e.line) ELSE "")

\* the prompt the claim describes for the attempt a: its generated text and
\* its first min(5, n) error diagnostics, in order
PromptFromAttempt(a) ==
    PromptHead \o a.generated_code \o PromptMiddle
        \o JoinLines([k \in 1..(IF Len(a.validation_result.errors) < 5
                                THEN Len(a.validation_result.errors) ELSE 5) |->
                         DiagnosticWithLine(a.validation_result.errors[k])])
        \o PromptTail

\* C21: the correction prompt of round k >= 2 is built from attempt k-1 only:
\* it holds that attempt's generated text verbatim and the first min(5, n)
\* error diagnostics of its validation, in order, each with code, message and
\* the line when it has one, and nothing of earlier attempts or beyond the fifth
C21_PromptFromPreviousAttempt ==
    \A j \in 1..Len(prompts) :
        /\ j <= Len(attempts)
        /\ prompts[j] = PromptFromAttempt(attempts[j])

(***************************************************************************)
(* Properties of the token and cost totals, checked under SpecHarness      *)
(***************************************************************************)
\* the prompt / completion tokens of the first k attempts of as
RECURSIVE PromptTokensUpTo(_, _)
PromptTokensUpTo(as, k) ==
    IF k = 0 THEN 0 ELSE PromptTokensUpTo(as, k - 1) + as[k].prompt_tokens

RECURSIVE CompletionTokensUpTo(_, _)
CompletionTokensUpTo(as, k) ==
    IF k = 0 THEN 0 ELSE CompletionTokensUpTo(as, k - 1) + as[k].completion_tokens

\* the totals of the returned metrics are the sums over its attempts, are not
\* negative, and the cost in millionths of a dollar is 3 x prompt + 15 x completion
TotalsOfMetrics ==
    hpc = "returned" =>
        /\ metrics.total_prompt_tokens = PromptTokensUpTo(metrics.attempts, Len(metrics.attempts))
        /\ metrics.total_completion_tokens =
               CompletionTokensUpTo(metrics.attempts, Len(metrics.attempts))
        /\ metrics.total_prompt_tokens >= 0
        /\ metrics.total_completion_tokens >= 0
        /\ metrics.total_cost_micro_usd =
               3 * metrics.total_prompt_tokens + 15 * metrics.total_completion_tokens
        /\ metrics.total_cost_micro_usd >= 0

\* a step of generate only extends the attempts, and the sums over them do not
\* decrease
TotalsGrow ==
    /\ Len(attempts') >= Len(attempts)
    /\ SubSeq(attempts', 1, Len(attempts)) = attempts
    /\ PromptTokensUpTo(attempts', Len(attempts')) >= PromptTokensUpTo(attempts, Len(attempts))
    /\ CompletionTokensUpTo(attempts', Len(attempts'))
           >= CompletionTokensUpTo(attempts, Len(attempts))

\* C22: in every GenerationMetrics total_prompt_tokens and
\* total_completion_tokens are the sums of the per-attempt counts, are
\* non-negative and never decrease as attempts are added, and the cost in
\* millionths of a dollar is 3 x prompt tokens + 15 x completion tokens.
C22_TokenAndCostTotals == []TotalsOfMetrics /\ [][TotalsGrow]_vars

\* three attempts were made and completion tokens were charged
C22_Witness ==
    /\ hpc = "returned"
    /\ metrics.total_attempts = 3
    /\ metrics.total_completion_tokens > 0
    /\ metrics.total_cost_micro_usd > 3 * metrics.total_prompt_tokens

(***************************************************************************)
(* Properties of the success counts, checked under SpecSuite               *)
(***************************************************************************)
\* among the records of rs at the positions S: how many passed at first, how
\* many passed in the end
FirstPassIn(rs, S) == Cardinality({k \in S : rs[k].first_pass_success})

FinalIn(rs, S) == Cardinality({k \in S : rs[k].final_success})

\* every group of records of rs (the records of one category are such a
\* group) has first-pass count <= final count <= size
CountsOrdered(rs) ==
    \A S \in SUBSET (1..Len(rs)) :
        /\ FirstPassIn(rs, S) <= FinalIn(rs, S)
        /\ FinalIn(rs, S) <= Cardinality(S)
        /\ FinalIn(rs, S) - FirstPassIn(rs, S) >= 0

\* C27: in every GenerationMetrics returned by generate first_pass_success
\* implies final_success; so in any aggregate over such records, the batch
\* results, the lines of the output file and each category among them, the
\* first-pass count is at most the final count, which is at most the total,
\* and the improvement (final minus first-pass) is never negative.
C27_FirstPassImpliesFinal ==
    /\ \A k \in 1..Len(results) :
          results[k].first_pass_success => results[k].final_success
    /\ CountsOrdered(results)
    /\ CountsOrdered(outFile.lines)
    /\ spc \in {"summarised", "analysed"} =>
          /\ summary.first_pass <= summary.final
          /\ summary.final <= summary.total
          /\ summary.final - summary.first_pass >= 0

\* a batch of two tasks: one passed at first, the other after a correction
C27_Witness ==
    /\ spc = "summarised"
    /\ summary.total = 2
    /\ summary.first_pass = 1
    /\ summary.final = 2

(***************************************************************************)
(* Further properties of ExampleSelector.select, checked under SpecSelector *)
(***************************************************************************)
\* C28: the selection is maximal: whenever select returns fewer than
\* maxExamples examples, no positive-scoring catalog example outside the list
\* fits in the budget that remains; and no example is in the list twice.
C28_SelectionMaximal ==
    selPc = "returned" =>
        /\ Len(selOut) < selIn.max_examples =>
              \A i \in RefPositive(RefScores(selIn.task_type, 1)) :
                  InList(EXAMPLES[i], selOut)
                      \/ EXAMPLES[i].approx_tokens
                             > selIn.max_tokens - SumApproxTokens(selOut)
        /\ \A a, b \in 1..Len(selOut) : a # b => selOut[a] # selOut[b]

\* a call that returned fewer examples than allowed, with examples taken and
\* examples left out, one of which would have fitted the whole budget
C28_Witness ==
    /\ selPc = "returned"
    /\ Len(selOut) >= 2
    /\ Len(selOut) < selIn.max_examples
    /\ \E i \in 1..Len(EXAMPLES) :
          /\ ~InList(EXAMPLES[i], selOut)
          /\ EXAMPLES[i].approx_tokens <= selIn.max_tokens

\* C29: with the shipped catalog every example has a strictly positive score
\* for every task type, so select returns a non-empty list whenever
\* maxExamples >= 1 and at least one catalog example costs at most maxTokens.
C29_NonEmptySelection ==
    /\ \A i \in 1..Len(EXAMPLES), t \in TaskTypes : ScoreExample(EXAMPLES[i], t) > 0
    /\ selPc = "returned" =>
          ((/\ selIn.max_examples >= 1
            /\ \E i \in 1..Len(EXAMPLES) : EXAMPLES[i].approx_tokens <= selIn.max_tokens)
              => selOut # <<>>)

\* the budget admits the cheapest example only, and one call returned it
C29_Witness ==
    /\ selPc = "returned"
    /\ selIn.max_examples >= 1
    /\ Cardinality({i \in 1..Len(EXAMPLES) :
                       EXAMPLES[i].approx_tokens <= selIn.max_tokens}) = 1
    /\ Len(selOut) = 1

\* C24: with the default budgets (max_tokens = 1500, max_examples = 3) and the
\* shipped catalog, select returns 2 or 3 examples for every one of the 13
\* task types.
C24_TwoOrThreeByDefault ==
    /\ Cardinality(TaskTypes) = 13
    /\ (selPc = "returned" /\ selIn.max_tokens = 1500 /\ selIn.max_examples = 3)
          => Len(selOut) \in {2, 3}

\* a default call that returned two examples: the third would not fit
C24_Witness ==
    /\ selPc = "returned"
    /\ selIn.max_tokens = 1500
    /\ selIn.max_examples = 3
    /\ Len(selOut) = 2

(***************************************************************************)
(* Properties of the structured path, checked under SpecValidator          *)
(***************************************************************************)
\* the output of the call was decoded and every record has a severity of the
\* enum (or none): _parse_json_output returns its two lists
StructuredPathTaken ==
    /\ CompilerRan
    /\ LooksLikeJson(CombinedOutput(ResultParsed))
    /\ WellFormedRecords(JsonLoads(CombinedOutput(ResultParsed)))

\* the decoded records, in input order
DecodedRecords(data) == IF data.t = "dict" THEN <<data>> ELSE data.items

\* the severity of a record; a record without the field counts as an error
RecordSeverity(item) == DictGet(item, "severity", PyStr("error")).s

\* the diagnostics of the records of recs whose severity is in sevs, in order
RECURSIVE DiagnosticsOf(_, _)
DiagnosticsOf(recs, sevs) ==
    IF recs = <<>> THEN <<>>
    ELSE (IF RecordSeverity(Head(recs)) \in sevs
          THEN <<JsonItem(Head(recs)).error>> ELSE <<>>)
            \o DiagnosticsOf(Tail(recs), sevs)

\* the two lists hold the records as the claim says
ListsPartition(recs, p) ==
    /\ ~p.raised
    /\ p.errors = DiagnosticsOf(recs, {"error"})
    /\ p.warnings = DiagnosticsOf(recs, {"warning", "info"})
    /\ Len(p.errors) + Len(p.warnings) = Len(recs)

\* C30: on the structured path every decoded record lands in exactly one of
\* the two returned lists, in input order: errors holds the records of
\* severity error (those without a severity field included), warnings holds
\* every other record, warning and info alike; an info record never affects
\* success.
C30_StructuredRecordsPartition ==
    StructuredPathTaken =>
        /\ ListsPartition(DecodedRecords(JsonLoads(CombinedOutput(ResultParsed)).val),
                          ParseCompilerOutput(ResultParsed))
        /\ vpc = "returned" =>
              /\ SameLists(vOut.result, ParseCompilerOutput(ResultParsed))
              /\ vOut.result.success <=>
                     DiagnosticsOf(DecodedRecords(
                                       JsonLoads(CombinedOutput(ResultParsed)).val),
                                   {"error"}) = <<>>

\* a call whose output held an info record, reported among the warnings, and
\* an error record without a severity field, reported among the errors
C30_Witness ==
    /\ StructuredPathTaken
    /\ vpc = "returned"
    /\ \E k \in 1..Len(vOut.result.warnings) : vOut.result.warnings[k].severity = "info"
    /\ Len(vOut.result.errors) = 1
    /\ ~vOut.result.success

(***************************************************************************)
(* Properties of select on other catalogs, checked under SpecCatalog       *)
(***************************************************************************)
\* the positions of the catalog whose entry has a positive score for the task
PositiveEntries(examples, task_type) ==
    {i \in 1..Len(examples) : ScoreExample(examples[i], task_type) > 0}

\* C23: selecting for a category for which no catalog entry has a positive
\* score returns an empty list, and returns normally.
C23_NoCandidateGivesEmptyList ==
    (selPc # "idle" /\ PositiveEntries(selIn.examples, selIn.task_type) = {}) =>
        /\ selPc = "returned"
        /\ selOut = <<>>

\* a catalog of two entries, one of score 0 and one of negative score, was
\* searched with budgets that would admit both
C23_Witness ==
    /\ selPc = "returned"
    /\ Len(selIn.examples) = 2
    /\ selIn.max_tokens = 1500
    /\ selIn.max_examples = 3
    /\ \E i \in 1..2 : ScoreExample(selIn.examples[i], selIn.task_type) = 0
    /\ \E i \in 1..2 : ScoreExample(selIn.examples[i], selIn.task_type) < 0
    /\ selOut = <<>>

(***************************************************************************)
(* Properties of category inference, checked under SpecRecommend           *)
(***************************************************************************)
\* d contains one of the keywords
HasAny(d, keywords) ==
    \E kw \in keywords : \E i \in 1..Len(d) :
        i + Len(kw) - 1 <= Len(d) /\ SubSeq(d, i, i + Len(kw) - 1) = kw

\* the category the claim gives to the lower-cased description d: the rules
\* in the claim's order, the first match decides
InferredCategory(d) ==
    IF HasAny(d, {"pure", "no effect", "calculation", "compute"}) THEN "pure_function"
    ELSE IF HasAny(d, {"create", "insert", "update", "delete", "crud"}) THEN "crud_operation"
    ELSE IF HasAny(d, {"error", "handle", "exception", "union"}) THEN "error_handling"
    ELSE IF HasAny(d, {"match", "pattern", "destructur"}) THEN "pattern_matching"
    ELSE IF HasAny(d, {"query", "select", "sql"})
         THEN (IF HasAny(d, {"postgres", "mysql", "sql"}) THEN "query_sql"
               ELSE "query_covenant")
    ELSE IF HasAny(d, {"database", "schema", "table"}) THEN "database_binding"
    ELSE IF HasAny(d, {"transaction", "atomic"}) THEN "transaction"
    ELSE IF HasAny(d, {"struct", "enum", "type"}) THEN "type_definition"
    ELSE IF HasAny(d, {"migrate", "translate", "convert"}) THEN "migration"
    ELSE "general"

\* C25: category inference tries its keyword rules in the order pure-function,
\* CRUD, error-handling, pattern-matching, query, database-binding,
\* transaction, type-definition, migration on the lower-cased description and
\* returns the category of the first rule that matches, the generic category
\* when none does; a description that first matches the query rule is an SQL
\* query when it names SQL or a dialect (postgres, mysql, sql) and a DSL query
\* otherwise.
C25_FirstMatchingRule ==
    selPc = "returned" =>
        /\ selOut = InferredCategory(Lower(selIn.task_description))
        /\ selOut \in TaskTypes

\* a description in upper and lower case that matches the query rule and the
\* database rule, and names a dialect: the query rule decided
C25_Witness ==
    /\ selPc = "returned"
    /\ selIn.task_description = "Select schema" \/ selIn.task_description = "postgres query"
    /\ selOut \in {"query_covenant", "query_sql"}

(***************************************************************************)
(* Properties of the provider choice, checked under SpecMain               *)
(***************************************************************************)
\* run_test_suite has built its harness
SuiteHarnessBuilt == mpc \in {"suite", "called"}

\* C26: the batch run uses the provider chosen by --provider: with 'mock',
\* the default, the harness run_test_suite builds is in mock mode, holds no
\* client of a real provider, is built without the provider's package or API
\* key, and sends no request; with another choice the harness uses that
\* provider.
C26_ProviderFromConfiguration ==
    /\ DefaultProviderArg = "mock"
    /\ mainArgs.provider = "mock" =>
          /\ SuiteHarnessBuilt =>
                suiteHarness.model_provider = "mock" /\ suiteHarness.client = "none"
          /\ mpc = "raised" => mainExc \notin {"ImportError", "ValueError"}
          /\ apiCalls = 0
    /\ (mainArgs.provider \in {"anthropic", "openai"} /\ SuiteHarnessBuilt) =>
          suiteHarness.model_provider = mainArgs.provider

====
